---- MODULE Spec2Model ----
(***************************************************************************)
(* A model of the Astro -> Hatena Markdown converter                       *)
(* (src/astro_to_hatena_converter.py).                                     *)
(*                                                                         *)
(* Text is a sequence of one-character strings.  Every transform is an     *)
(* operator over such sequences that scans the text the way the Python     *)
(* regular expression of the source scans it.                              *)
(***************************************************************************)
EXTENDS Integers, Sequences, FiniteSets, TLC

VARIABLES
    pc,            \* position of the running operation
    content,       \* the text handed to the operation
    out,           \* the text the operation returned
    lines,         \* convert_lists: content.split('\n')
    i,             \* convert_lists: loop index (0-based, as in the source)
    result,        \* convert_lists: list of output lines
    in_ul,         \* convert_lists: an unordered container is open
    in_ol,         \* convert_lists: an ordered container is open
    indent_level,  \* convert_lists: recorded indent
    warnings,      \* AstroToHatenaConverter.warnings
    header,        \* the header map as the caller built it (yaml.safe_load)
    frontmatter,   \* the same dict object after convert_frontmatter
    outcome,       \* how the last call ended: "none", "ok", "error" (an
                   \* exception of the conversion) or "missing" (no file)
    args,          \* main: the parsed command line
    exit_status,   \* main: the exit status of the process, -1 while it runs
    written,       \* main: the converted text written, and where
    entry,         \* create_atom_entry: the Atom entry built for the post
    access_token,  \* uploader: access token and secret in memory
    config_file,   \* uploader: access token and secret in the config file
    requests,      \* uploader: number of requests sent to the server
    returned,      \* uploader: what the last call returned
    expressions,   \* LaTeX tool: the list extract_latex_expressions returned
    image_mappings \* LaTeX tool: the mappings of the rendered expressions

\* the state of the command line programs
cli == <<args, exit_status, written, entry>>

\* the state of the uploader object and of the LaTeX tool
tools == <<access_token, config_file, requests, returned, expressions,
           image_mappings>>

vars == <<pc, content, out, lines, i, result, in_ul, in_ol, indent_level,
          warnings, header, frontmatter, outcome, args, exit_status, written,
          entry, access_token, config_file, requests, returned, expressions,
          image_mappings>>

-----------------------------------------------------------------------------
(* Characters and text helpers                                             *)

NL == "\n"

\* str.lstrip() with no argument strips these (ASCII whitespace)
Whitespace == {" ", "\t", "\n", "\r"}

\* \d of the regular expressions (ASCII digits)
Digits == {"0", "1", "2", "3", "4", "5", "6", "7", "8", "9"}

\* \w of the regular expressions, restricted to the letters the inputs use
WordChars ==
    Digits \cup {"_", "a", "b", "c", "d", "e", "g", "i", "k", "l", "m", "o",
                 "p", "r", "s", "t", "u", "v", "x", "y"}

\* \s of the regular expressions (ASCII whitespace)
ReSpace == {" ", "\t", "\n", "\r"}

RECURSIVE Spaces(_)
Spaces(n) == IF n <= 0 THEN <<>> ELSE <<" ">> \o Spaces(n - 1)

\* s[p:] with a 1-based p
From(s, p) == IF p > Len(s) THEN <<>> ELSE SubSeq(s, p, Len(s))

\* s[p:].startswith(t), 1-based p
StartsAt(s, p, t) ==
    /\ p >= 1
    /\ p + Len(t) - 1 <= Len(s)
    /\ SubSeq(s, p, p + Len(t) - 1) = t

\* the least q in p..Len(s)-Len(t)+1 with t at q, or 0: str.find
RECURSIVE Find(_, _, _)
Find(s, p, t) ==
    IF p < 1 \/ p + Len(t) - 1 > Len(s) THEN 0
    ELSE IF StartsAt(s, p, t) THEN p
    ELSE Find(s, p + 1, t)

\* str.split(sep) for a one-character sep
RECURSIVE SplitFrom(_, _, _, _)
SplitFrom(s, sep, p, cur) ==
    IF p > Len(s) THEN <<cur>>
    ELSE IF s[p] = sep THEN <<cur>> \o SplitFrom(s, sep, p + 1, <<>>)
    ELSE SplitFrom(s, sep, p + 1, Append(cur, s[p]))

Split(s, sep) == SplitFrom(s, sep, 1, <<>>)

\* sep.join(parts) for a text sep
RECURSIVE Join(_, _)
Join(parts, sep) ==
    IF Len(parts) = 0 THEN <<>>
    ELSE IF Len(parts) = 1 THEN parts[1]
    ELSE parts[1] \o sep \o Join(Tail(parts), sep)

\* concatenation of a sequence of texts
RECURSIVE Flatten(_)
Flatten(parts) ==
    IF Len(parts) = 0 THEN <<>> ELSE parts[1] \o Flatten(Tail(parts))

\* line.lstrip()
RECURSIVE LStrip(_)
LStrip(s) ==
    IF Len(s) > 0 /\ s[1] \in Whitespace THEN LStrip(Tail(s)) ELSE s

\* the number of characters of s from p on that are in set: a greedy [set]*
RECURSIVE RunLen(_, _, _)
RunLen(s, p, set) ==
    IF p <= Len(s) /\ s[p] \in set THEN 1 + RunLen(s, p + 1, set) ELSE 0

\* the number of characters of s from p on that differ from c: a greedy [^c]*
RECURSIVE RunLenNot(_, _, _)
RunLenNot(s, p, c) ==
    IF p <= Len(s) /\ s[p] # c THEN 1 + RunLenNot(s, p + 1, c) ELSE 0

-----------------------------------------------------------------------------
(* convert_lists                                                           *)

UL_OPEN  == <<"<", "u", "l", ">">>
UL_CLOSE == <<"<", "/", "u", "l", ">">>
OL_OPEN  == <<"<", "o", "l", ">">>
OL_CLOSE == <<"<", "/", "o", "l", ">">>
LI_OPEN  == <<"<", "l", "i", ">", " ">>
LI_CLOSE == <<" ", "<", "/", "l", "i", ">">>

\* re.match(r'^- ', stripped)
IsBullet(stripped) == StartsAt(stripped, 1, <<"-", " ">>)

\* the length of the match of r'^\d+\. ' at the start of stripped, or 0
OrderedMarkerLen(stripped) ==
    LET d == RunLen(stripped, 1, Digits)
    IN  IF d >= 1 /\ StartsAt(stripped, d + 1, <<".", " ">>) THEN d + 2 ELSE 0

\* re.match(r'^\d+\. ', stripped)
IsOrdered(stripped) == OrderedMarkerLen(stripped) > 0

\* '    ' * (current_indent // 2 + 1) + f'<li> {item_text} </li>'
ListItem(current_indent, item_text) ==
    Spaces(4 * ((current_indent \div 2) + 1)) \o LI_OPEN \o item_text \o LI_CLOSE

\* the loop state of convert_lists
ListState(r, ul, ol, lvl) ==
    [result |-> r, in_ul |-> ul, in_ol |-> ol, indent_level |-> lvl]

ListInit == ListState(<<>>, FALSE, FALSE, 0)

\* BulletBranch with '>=' for '>' in the test that opens a container
BulletBranch_OpensOnEqualIndent(st, line) ==
    LET stripped == LStrip(line)
        current_indent == Len(line) - Len(stripped)
        enter == ~st.in_ul \/ current_indent >= st.indent_level
        r1 == IF enter /\ st.in_ol THEN Append(st.result, OL_CLOSE) ELSE st.result
        r2 == IF enter
              THEN Append(r1, Spaces(4 * (current_indent \div 2)) \o UL_OPEN)
              ELSE Append(r1, Spaces(4 * (current_indent \div 2)) \o UL_CLOSE)
    IN  [result |-> Append(r2, Spaces(4 * ((current_indent \div 2) + 1))
                               \o LI_OPEN \o From(stripped, 3) \o LI_CLOSE),
         in_ul |-> TRUE, in_ol |-> FALSE, indent_level |-> current_indent]

\* BulletBranch without lines 50-52: the open ordered container is not closed
BulletBranch_KeepsOlOpen(st, line) ==
    LET stripped == LStrip(line)
        current_indent == Len(line) - Len(stripped)
        enter == ~st.in_ul \/ current_indent > st.indent_level
        r2 == IF enter
              THEN IF current_indent > st.indent_level
                   THEN Append(st.result, Spaces(4 * (current_indent \div 2)) \o UL_OPEN)
                   ELSE IF ~st.in_ul THEN Append(st.result, UL_OPEN) ELSE st.result
              ELSE IF current_indent < st.indent_level
                   THEN Append(st.result, Spaces(4 * (current_indent \div 2)) \o UL_CLOSE)
                   ELSE st.result
    IN  [result |-> Append(r2, Spaces(4 * ((current_indent \div 2) + 1))
                               \o LI_OPEN \o From(stripped, 3) \o LI_CLOSE),
         in_ul |-> IF enter THEN TRUE ELSE st.in_ul,
         in_ol |-> IF enter THEN FALSE ELSE st.in_ol,
         indent_level |-> IF enter \/ current_indent < st.indent_level
                          THEN current_indent ELSE st.indent_level]

\* lines 48-64: the bullet branch of the loop body
BulletBranch(st, line) ==
    LET stripped == LStrip(line)
        current_indent == Len(line) - Len(stripped)
        enter == ~st.in_ul \/ current_indent > st.indent_level
        r1 == IF enter /\ st.in_ol THEN Append(st.result, OL_CLOSE) ELSE st.result
        r2 == IF enter
              THEN IF current_indent > st.indent_level
                   THEN Append(r1, Spaces(4 * (current_indent \div 2)) \o UL_OPEN)
                   ELSE IF ~st.in_ul THEN Append(r1, UL_OPEN) ELSE r1
              ELSE IF current_indent < st.indent_level
                   THEN Append(r1, Spaces(4 * (current_indent \div 2)) \o UL_CLOSE)
                   ELSE r1
        item_text == From(stripped, 3)
    IN  ListState(Append(r2, ListItem(current_indent, item_text)),
                  IF enter THEN TRUE ELSE st.in_ul,
                  IF enter THEN FALSE ELSE st.in_ol,
                  IF enter \/ current_indent < st.indent_level
                  THEN current_indent ELSE st.indent_level)

\* lines 67-83: the ordered branch of the loop body
OrderedBranch(st, line) ==
    LET stripped == LStrip(line)
        current_indent == Len(line) - Len(stripped)
        enter == ~st.in_ol \/ current_indent > st.indent_level
        r1 == IF enter /\ st.in_ul THEN Append(st.result, UL_CLOSE) ELSE st.result
        r2 == IF enter
              THEN IF current_indent > st.indent_level
                   THEN Append(r1, Spaces(4 * (current_indent \div 2)) \o OL_OPEN)
                   ELSE IF ~st.in_ol THEN Append(r1, OL_OPEN) ELSE r1
              ELSE IF current_indent < st.indent_level
                   THEN Append(r1, Spaces(4 * (current_indent \div 2)) \o OL_CLOSE)
                   ELSE r1
        item_text == From(stripped, OrderedMarkerLen(stripped) + 1)
    IN  ListState(Append(r2, ListItem(current_indent, item_text)),
                  IF enter THEN FALSE ELSE st.in_ul,
                  IF enter THEN TRUE ELSE st.in_ol,
                  IF enter \/ current_indent < st.indent_level
                  THEN current_indent ELSE st.indent_level)

\* OtherBranch that emits the line without its leading white space
OtherBranch_Strips(st, line) ==
    LET r1 == IF st.in_ul THEN Append(st.result, UL_CLOSE) ELSE st.result
        r2 == IF st.in_ol THEN Append(r1, OL_CLOSE) ELSE r1
    IN  [result |-> Append(r2, LStrip(line)), in_ul |-> FALSE, in_ol |-> FALSE,
         indent_level |-> 0]

\* OtherBranch without line 93: the recorded indent is not reset
OtherBranch_KeepsIndent(st, line) ==
    LET r1 == IF st.in_ul THEN Append(st.result, UL_CLOSE) ELSE st.result
        r2 == IF st.in_ol THEN Append(r1, OL_CLOSE) ELSE r1
    IN  [result |-> Append(r2, line), in_ul |-> FALSE, in_ol |-> FALSE,
         indent_level |-> st.indent_level]

\* lines 85-94: any other line
OtherBranch(st, line) ==
    LET r1 == IF st.in_ul THEN Append(st.result, UL_CLOSE) ELSE st.result
        r2 == IF st.in_ol THEN Append(r1, OL_CLOSE) ELSE r1
    IN  ListState(Append(r2, line), FALSE, FALSE, 0)

\* lines 43-96: one pass of the loop body
ListStep(st, line) ==
    IF IsBullet(LStrip(line)) THEN BulletBranch(st, line)
    ELSE IF IsOrdered(LStrip(line)) THEN OrderedBranch(st, line)
    ELSE OtherBranch(st, line)

\* lines 98-102: close what is still open after the loop
ListClose(st) ==
    LET r1 == IF st.in_ul THEN Append(st.result, UL_CLOSE) ELSE st.result
    IN  IF st.in_ol THEN Append(r1, OL_CLOSE) ELSE r1

RECURSIVE ListLoop(_, _, _)
ListLoop(st, ls, k) ==
    IF k > Len(ls) THEN st ELSE ListLoop(ListStep(st, ls[k]), ls, k + 1)

\* convert_lists as a function of its argument
convert_lists(text) ==
    Join(ListClose(ListLoop(ListInit, Split(text, NL), 1)), <<NL>>)

-----------------------------------------------------------------------------
(* convert_lists as a state machine: one action per branch of the loop     *)

MaxLines == 3

ListIndents == {0, 2, 3}

ListBodies ==
    { <<"-", " ", "a">>, <<"-", " ", "b">>, <<"1", ".", " ", "c">>, <<"x">> }

ListLines == { Spaces(n) \o b : n \in ListIndents, b \in ListBodies }

ListInputs ==
    UNION { { Join(ls, <<NL>>) : ls \in [1..n -> ListLines] } : n \in 1..MaxLines }

CurState == ListState(result, in_ul, in_ol, indent_level)

\* line = lines[i] of the source (the model's sequences are 1-based)
CurLine == lines[i + 1]

SetListState(st) ==
    /\ result' = st.result
    /\ in_ul' = st.in_ul
    /\ in_ol' = st.in_ol
    /\ indent_level' = st.indent_level

\* nothing written, no entry built
NoOutput == [dest |-> "none", text |-> <<>>]

NoEntry == [built |-> FALSE]

\* a token pair; both parts empty when there is none
Tokens(token, secret) == [token |-> token, secret |-> secret]

NoTokens == Tokens("", "")

\* what the last call on the uploader object did: the method, the HTTP status
\* it received (0 when it sent nothing, -1 for a RequestException) and the
\* value it returned
Call(call, status, value) == [call |-> call, status |-> status, value |-> value]

NoCall == Call("none", 0, "none")

\* no uploader object, no extraction
InitTools ==
    /\ access_token = NoTokens
    /\ config_file = NoTokens
    /\ requests = 0
    /\ returned = NoCall
    /\ expressions = <<>>
    /\ image_mappings = <<>>

\* no command line program runs
InitCli ==
    /\ args = <<>>
    /\ exit_status = -1
    /\ written = NoOutput
    /\ entry = NoEntry
    /\ InitTools

InitIdle ==
    /\ out = <<>>
    /\ warnings = <<>>
    /\ header = <<>>
    /\ frontmatter = <<>>
    /\ outcome = "none"
    /\ InitCli

\* lines 35-41
InitLists ==
    /\ content \in ListInputs
    /\ lines = Split(content, NL)
    /\ i = 0
    /\ result = <<>>
    /\ in_ul = FALSE
    /\ in_ol = FALSE
    /\ indent_level = 0
    /\ pc = "loop"
    /\ InitIdle

\* lines 48-64, then i += 1
ProcessBullet ==
    /\ pc = "loop"
    /\ i < Len(lines)
    /\ IsBullet(LStrip(CurLine))
    /\ SetListState(BulletBranch(CurState, CurLine))
    /\ i' = i + 1
    /\ UNCHANGED <<tools, cli, pc, content, out, lines, warnings, header, frontmatter, outcome>>

\* lines 67-83, then i += 1
ProcessOrdered ==
    /\ pc = "loop"
    /\ i < Len(lines)
    /\ ~IsBullet(LStrip(CurLine))
    /\ IsOrdered(LStrip(CurLine))
    /\ SetListState(OrderedBranch(CurState, CurLine))
    /\ i' = i + 1
    /\ UNCHANGED <<tools, cli, pc, content, out, lines, warnings, header, frontmatter, outcome>>

\* lines 85-94, then i += 1
ProcessOther ==
    /\ pc = "loop"
    /\ i < Len(lines)
    /\ ~IsBullet(LStrip(CurLine))
    /\ ~IsOrdered(LStrip(CurLine))
    /\ SetListState(OtherBranch(CurState, CurLine))
    /\ i' = i + 1
    /\ UNCHANGED <<tools, cli, pc, content, out, lines, warnings, header, frontmatter, outcome>>

\* lines 98-104: the loop has ended
FinishLists ==
    /\ pc = "loop"
    /\ i >= Len(lines)
    /\ result' = ListClose(CurState)
    /\ out' = Join(result', <<NL>>)
    /\ pc' = "done"
    /\ outcome' = "ok"
    /\ UNCHANGED <<tools, cli, content, lines, i, in_ul, in_ol, indent_level, warnings, header,
                   frontmatter>>

NextLists == ProcessBullet \/ ProcessOrdered \/ ProcessOther \/ FinishLists

SpecLists == InitLists /\ [][NextLists]_vars

-----------------------------------------------------------------------------
(* Claims about convert_lists, checked under SpecLists                     *)

\* the number of positions of s at which t starts
RECURSIVE CountFrom(_, _, _)
CountFrom(s, p, t) ==
    IF p + Len(t) - 1 > Len(s) THEN 0
    ELSE (IF StartsAt(s, p, t) THEN 1 ELSE 0) + CountFrom(s, p + 1, t)

Count(s, t) == CountFrom(s, 1, t)

LI_TAG == <<"<", "l", "i", ">">>

\* every input line is a bullet item at indent 0
FlatBullets == \A k \in 1..Len(lines) : StartsAt(lines[k], 1, <<"-", " ">>)

\* C1: a flat bullet list of N >= 1 items at indent 0 with no other lines
\* converts to one <ul>, then the N items as <li> elements in the order of
\* the input, then one </ul>, and no <ol> or </ol> appears in the output.
C1_FlatBulletList ==
    (pc = "done" /\ FlatBullets) =>
        /\ Len(result) = Len(lines) + 2
        /\ result[1] = UL_OPEN
        /\ \A k \in 1..Len(lines) :
               LStrip(result[k + 1]) = LI_OPEN \o From(lines[k], 3) \o LI_CLOSE
        /\ result[Len(result)] = UL_CLOSE
        /\ Count(out, UL_OPEN) = 1
        /\ Count(out, UL_CLOSE) = 1
        /\ Count(out, LI_TAG) = Len(lines)
        /\ Count(out, OL_OPEN) = 0
        /\ Count(out, OL_CLOSE) = 0

C1_Witness ==
    /\ pc = "done"
    /\ FlatBullets
    /\ Len(lines) = MaxLines
    /\ lines[1] # lines[2]

\* the line the step that just ended has processed is a list item element
IsItemOf(outline, line, markerLen) ==
    LStrip(outline) = LI_OPEN \o From(LStrip(line), markerLen + 1) \o LI_CLOSE

\* C2: when a bullet line is processed while an ordered container is open, or
\* an ordered line while an unordered container is open, the step emits the
\* closing tag of the open container, then an opening tag of the new kind,
\* then the item, whatever the relation of the line's indent to the recorded
\* indent is.
C2_KindSwitch ==
    [][ (pc = "loop" /\ i < Len(lines) /\ i' = i + 1) =>
          LET s == LStrip(CurLine)
              n == Len(result)
          IN  /\ (IsBullet(s) /\ in_ol) =>
                    /\ Len(result') = n + 3
                    /\ SubSeq(result', 1, n) = result
                    /\ LStrip(result'[n + 1]) = OL_CLOSE
                    /\ LStrip(result'[n + 2]) = UL_OPEN
                    /\ IsItemOf(result'[n + 3], CurLine, 2)
                    /\ in_ul' /\ ~in_ol'
              /\ (~IsBullet(s) /\ IsOrdered(s) /\ in_ul) =>
                    /\ Len(result') = n + 3
                    /\ SubSeq(result', 1, n) = result
                    /\ LStrip(result'[n + 1]) = UL_CLOSE
                    /\ LStrip(result'[n + 2]) = OL_OPEN
                    /\ IsItemOf(result'[n + 3], CurLine, OrderedMarkerLen(s))
                    /\ in_ol' /\ ~in_ul' ]_vars

IndentOf(line) == Len(line) - Len(LStrip(line))

\* a bullet line at a smaller indent has just been processed right after an
\* ordered line, and the three output lines of the switch are there
C2_Witness ==
    /\ pc = "loop"
    /\ i >= 2
    /\ IsOrdered(LStrip(lines[i - 1]))
    /\ IsBullet(LStrip(lines[i]))
    /\ IndentOf(lines[i]) < IndentOf(lines[i - 1])
    /\ Len(result) >= 3
    /\ result[Len(result) - 2] = OL_CLOSE
    /\ result[Len(result) - 1] = UL_OPEN
    /\ in_ul /\ ~in_ol

\* the number of the first n lines of r that are the tag, indented or not
TagLines(r, n, tag) == Cardinality({ k \in 1..n : LStrip(r[k]) = tag })

\* C17 as stated: the output of convert_lists is tag-balanced: in every
\* prefix of its lines the closing tags of a kind are no more than the
\* opening tags of that kind, and in the whole output they are as many, for
\* <ul> and for <ol>.
C17_AsStated ==
    pc = "done" =>
        /\ \A n \in 1..Len(result) :
               /\ TagLines(result, n, UL_CLOSE) <= TagLines(result, n, UL_OPEN)
               /\ TagLines(result, n, OL_CLOSE) <= TagLines(result, n, OL_OPEN)
        /\ TagLines(result, Len(result), UL_CLOSE) = TagLines(result, Len(result), UL_OPEN)
        /\ TagLines(result, Len(result), OL_CLOSE) = TagLines(result, Len(result), OL_OPEN)

\* C18 as stated: when a list line of the kind of the open container has an
\* indent below the recorded indent, the step emits one closing tag of that
\* kind, indented by recorded indent // 2 units of four spaces, then the
\* item, and the recorded indent becomes the indent of the line.
C18_AsStated ==
    [][ (pc = "loop" /\ i < Len(lines) /\ i' = i + 1) =>
          LET s == LStrip(CurLine)
              n == Len(result)
              old == Spaces(4 * (indent_level \div 2))
          IN  /\ (IsBullet(s) /\ in_ul /\ IndentOf(CurLine) < indent_level) =>
                    /\ Len(result') = n + 2
                    /\ SubSeq(result', 1, n) = result
                    /\ result'[n + 1] = old \o UL_CLOSE
                    /\ IsItemOf(result'[n + 2], CurLine, 2)
                    /\ indent_level' = IndentOf(CurLine)
              /\ (~IsBullet(s) /\ IsOrdered(s) /\ in_ol /\ IndentOf(CurLine) < indent_level) =>
                    /\ Len(result') = n + 2
                    /\ SubSeq(result', 1, n) = result
                    /\ result'[n + 1] = old \o OL_CLOSE
                    /\ IsItemOf(result'[n + 2], CurLine, OrderedMarkerLen(s))
                    /\ indent_level' = IndentOf(CurLine) ]_vars

\* the indents of the opening tags of r[k ..] that no closing tag has
\* closed, on top of those in stack, the most recent one last
RECURSIVE OpenTags(_, _, _)
OpenTags(r, k, stack) ==
    IF k > Len(r) THEN stack
    ELSE IF LStrip(r[k]) \in {UL_OPEN, OL_OPEN}
    THEN OpenTags(r, k + 1, Append(stack, IndentOf(r[k])))
    ELSE IF LStrip(r[k]) \in {UL_CLOSE, OL_CLOSE} /\ Len(stack) > 0
    THEN OpenTags(r, k + 1, SubSeq(stack, 1, Len(stack) - 1))
    ELSE OpenTags(r, k + 1, stack)

\* the last line of r is the one item element the step has added for the
\* line, four spaces deeper than the most recent opening tag still open
ItemInContainer(r, before, line, markerLen) ==
    /\ Len(r) > Len(before)
    /\ SubSeq(r, 1, Len(before)) = before
    /\ \A k \in (Len(before) + 1)..(Len(r) - 1) :
           LStrip(r[k]) \in {UL_OPEN, OL_OPEN, UL_CLOSE, OL_CLOSE}
    /\ IsItemOf(r[Len(r)], line, markerLen)
    /\ LET open == OpenTags(r, 1, <<>>)
       IN  /\ Len(open) > 0
           /\ IndentOf(r[Len(r)]) = open[Len(open)] + 4

\* C19 as stated: every bullet or ordered line emits one item element with
\* the text after the marker, indented one unit of four spaces deeper than
\* the opening tag of the container it belongs to, the most recently emitted
\* opening tag still open, also when a kind switch at a non-zero indent has
\* opened the container.
C19_AsStated ==
    [][ (pc = "loop" /\ i < Len(lines) /\ i' = i + 1) =>
          LET s == LStrip(CurLine)
          IN  /\ IsBullet(s) => ItemInContainer(result', result, CurLine, 2)
              /\ (~IsBullet(s) /\ IsOrdered(s)) =>
                    ItemInContainer(result', result, CurLine, OrderedMarkerLen(s)) ]_vars

\* C20: a step on a line that is no list line emits the closing tag of the
\* open container, if there is one, then the line as it is; after it no
\* container is open and the recorded indent is 0.  The step at the end of
\* the input emits the closing tag of the container that is still open, and
\* nothing else.
C20_OtherLines ==
    [][ /\ (pc = "loop" /\ i < Len(lines) /\ i' = i + 1
            /\ ~IsBullet(LStrip(CurLine)) /\ ~IsOrdered(LStrip(CurLine))) =>
               /\ ~in_ul' /\ ~in_ol'
               /\ indent_level' = 0
               /\ result' = result
                            \o (IF in_ul THEN <<UL_CLOSE>> ELSE <<>>)
                            \o (IF in_ol THEN <<OL_CLOSE>> ELSE <<>>)
                            \o <<CurLine>>
        /\ (pc = "loop" /\ pc' = "done") =>
               /\ i = Len(lines)
               /\ result' = result
                            \o (IF in_ul THEN <<UL_CLOSE>> ELSE <<>>)
                            \o (IF in_ol THEN <<OL_CLOSE>> ELSE <<>>)
               /\ out' = Join(result', <<NL>>) ]_vars

\* an indented line that is no list line has been processed right after a
\* nested bullet line: the container is closed, the line stands as it was
C20_Witness ==
    /\ pc = "loop"
    /\ i >= 2
    /\ IsBullet(LStrip(lines[i - 1]))
    /\ IndentOf(lines[i - 1]) > 0
    /\ ~IsBullet(LStrip(lines[i]))
    /\ ~IsOrdered(LStrip(lines[i]))
    /\ IndentOf(lines[i]) > 0
    /\ Len(result) >= 2
    /\ result[Len(result) - 1] = UL_CLOSE
    /\ result[Len(result)] = lines[i]
    /\ ~in_ul /\ ~in_ol
    /\ indent_level = 0

-----------------------------------------------------------------------------
(* convert_strikethrough: re.sub(r'~~(.+?)~~', r'<s>\1</s>', content)      *)

TILDES  == <<"~", "~">>
S_OPEN  == <<"<", "s", ">">>
S_CLOSE == <<"<", "/", "s", ">">>

\* StrikeCloser of a greedy (.+): the last closing ~~ of the line, not the first
RECURSIVE StrikeCloser_Greedy(_, _)
StrikeCloser_Greedy(s, e) ==
    IF e + 1 > Len(s) THEN 0
    ELSE IF s[e] = NL THEN 0
    ELSE LET later == StrikeCloser_Greedy(s, e + 1)
         IN  IF later > 0 THEN later
             ELSE IF StartsAt(s, e, TILDES) THEN e ELSE 0

\* The lazy (.+?) has taken s[p+2 .. e-1], none of them a newline: the least
\* e' >= e where the closing ~~ stands, or 0 when a newline or the end of the
\* text comes first ('.' does not match a newline).
RECURSIVE StrikeCloser(_, _)
StrikeCloser(s, e) ==
    IF e + 1 > Len(s) THEN 0
    ELSE IF StartsAt(s, e, TILDES) THEN e
    ELSE IF s[e] = NL THEN 0
    ELSE StrikeCloser(s, e + 1)

\* the position of the closing ~~ of a match of the pattern at p, or 0
StrikeMatch(s, p) ==
    IF StartsAt(s, p, TILDES) /\ p + 2 <= Len(s) /\ s[p + 2] # NL
    THEN StrikeCloser(s, p + 3)
    ELSE 0

\* re.sub from position p on: leftmost matches, not overlapping
RECURSIVE StrikeSub(_, _)
StrikeSub(s, p) ==
    IF p > Len(s) THEN <<>>
    ELSE LET e == StrikeMatch(s, p)
         IN  IF e > 0
             THEN S_OPEN \o SubSeq(s, p + 2, e - 1) \o S_CLOSE \o StrikeSub(s, e + 2)
             ELSE <<s[p]>> \o StrikeSub(s, p + 1)

convert_strikethrough(text) == StrikeSub(text, 1)

-----------------------------------------------------------------------------
(* convert_code_blocks:                                                    *)
(*   re.sub(r'FENCE(\w+)?\n(.*?)FENCE', replace_code_block, content,         *)
(*          flags=re.DOTALL), FENCE standing for three backticks            *)

\* The backtick: a string of the module cannot hold the character itself,
\* so the model writes it as the caret, which no input of the model contains.
BACKTICK == "^"

FENCE == <<BACKTICK, BACKTICK, BACKTICK>>

INDENT4 == <<" ", " ", " ", " ">>

\* replace_code_block that leaves blank lines of the body without the prefix
replace_code_block_SkipsBlank(code) ==
    LET ls == Split(code, NL)
    IN  Join([k \in 1..Len(ls) |-> IF ls[k] = <<>> THEN <<>> ELSE INDENT4 \o ls[k]],
             <<NL>>)

\* lines 108-113: '\n'.join('    ' + line for line in code.split('\n'))
replace_code_block(code) ==
    LET ls == Split(code, NL)
    IN  Join([k \in 1..Len(ls) |-> INDENT4 \o ls[k]], <<NL>>)

\* the position of the newline that ends the opener of a match at p, or 0:
\* the fence, then the greedy optional (\w+), then \n
CodeOpenerEnd(s, p) ==
    LET q == p + 3 + RunLen(s, p + 3, WordChars)
    IN  IF StartsAt(s, p, FENCE) /\ q <= Len(s) /\ s[q] = NL THEN q ELSE 0

\* the position of the closing fence of a match at p, or 0: the lazy (.*?)
\* with DOTALL ends at the first fence after the opener's newline
CodeMatch(s, p) ==
    LET q == CodeOpenerEnd(s, p)
    IN  IF q > 0 THEN Find(s, q + 1, FENCE) ELSE 0

\* re.sub from position p on: leftmost matches, not overlapping
RECURSIVE CodeSub(_, _)
CodeSub(s, p) ==
    IF p > Len(s) THEN <<>>
    ELSE LET e == CodeMatch(s, p)
         IN  IF e > 0
             THEN replace_code_block(SubSeq(s, CodeOpenerEnd(s, p) + 1, e - 1))
                  \o CodeSub(s, e + 3)
             ELSE <<s[p]>> \o CodeSub(s, p + 1)

convert_code_blocks(text) == CodeSub(text, 1)

-----------------------------------------------------------------------------
(* convert_images:                                                         *)
(*   re.sub(pattern, replace_img_tag, content), the pattern being           *)
(*   <img \s+ src=Q ([^Q]+) Q \s+ alt=Q ([^Q]{0,}) Q [^>]{0,} /? >          *)
(*   written here with blanks between its parts, Q for the double quote    *)
(*   and {0,} for the star                                                 *)

DQ == "\""

IMG_TAG == <<"<", "i", "m", "g">>
SRC_EQ  == <<"s", "r", "c", "=">>
ALT_EQ  == <<"a", "l", "t", "=">>

\* lines 122-125: f'![{alt}]({src})'
replace_img_tag(src, alt) == <<"!", "[">> \o alt \o <<"]", "(">> \o src \o <<")">>

\* ImgMatch with a star for the plus of group 1: an empty src matches too
ImgMatch_EmptySrc(s, p) ==
    LET none == [end |-> 0, src |-> <<>>, alt |-> <<>>]
        a  == p + 4
        b  == a + RunLen(s, a, ReSpace)
        c  == b + 5
        d  == c + RunLenNot(s, c, DQ)
        f  == d + 1 + RunLen(s, d + 1, ReSpace)
        g  == f + 5
        h  == g + RunLenNot(s, g, DQ)
        m  == h + 1 + RunLenNot(s, h + 1, ">")
    IN  IF ~StartsAt(s, p, IMG_TAG) \/ b = a THEN none
        ELSE IF ~StartsAt(s, b, SRC_EQ \o <<DQ>>) THEN none
        ELSE IF ~StartsAt(s, d, <<DQ>>) \/ f = d + 1 THEN none
        ELSE IF ~StartsAt(s, f, ALT_EQ \o <<DQ>>) THEN none
        ELSE IF ~StartsAt(s, h, <<DQ>>) THEN none
        ELSE IF ~StartsAt(s, m, <<">">>) THEN none
        ELSE [end |-> m, src |-> SubSeq(s, c, d - 1), alt |-> SubSeq(s, g, h - 1)]

\* The match of the pattern at p: [end |-> position of the closing '>',
\* src |-> group 1, alt |-> group 2], or end = 0 when there is none.  Every
\* greedy run is followed by a character outside its class, so the match
\* takes each run whole.
ImgMatch(s, p) ==
    LET none == [end |-> 0, src |-> <<>>, alt |-> <<>>]
        a  == p + 4                               \* after <img
        b  == a + RunLen(s, a, ReSpace)           \* after \s+
        c  == b + 5                               \* after src=Q
        d  == c + RunLenNot(s, c, DQ)             \* the quote that ends group 1
        f  == d + 1 + RunLen(s, d + 1, ReSpace)   \* after Q\s+
        g  == f + 5                               \* after alt=Q
        h  == g + RunLenNot(s, g, DQ)             \* the quote that ends group 2
        m  == h + 1 + RunLenNot(s, h + 1, ">")    \* the closing >
    IN  IF ~StartsAt(s, p, IMG_TAG) \/ b = a THEN none
        ELSE IF ~StartsAt(s, b, SRC_EQ \o <<DQ>>) \/ d = c THEN none
        ELSE IF ~StartsAt(s, d, <<DQ>>) \/ f = d + 1 THEN none
        ELSE IF ~StartsAt(s, f, ALT_EQ \o <<DQ>>) THEN none
        ELSE IF ~StartsAt(s, h, <<DQ>>) THEN none
        ELSE IF ~StartsAt(s, m, <<">">>) THEN none
        ELSE [end |-> m, src |-> SubSeq(s, c, d - 1), alt |-> SubSeq(s, g, h - 1)]

\* re.sub from position p on: leftmost matches, not overlapping
RECURSIVE ImgSub(_, _)
ImgSub(s, p) ==
    IF p > Len(s) THEN <<>>
    ELSE LET m == ImgMatch(s, p)
         IN  IF m.end > 0
             THEN replace_img_tag(m.src, m.alt) \o ImgSub(s, m.end + 1)
             ELSE <<s[p]>> \o ImgSub(s, p + 1)

convert_images(text) == ImgSub(text, 1)

-----------------------------------------------------------------------------
(* check_latex_math and convert_content                                    *)

DOLLAR == "$"

\* re.search(r'\$[^$]+\$', content): a $, one or more other characters, a $
InlineMathAt(s, p) ==
    LET n == RunLenNot(s, p + 1, DOLLAR)
    IN  /\ p <= Len(s)
        /\ s[p] = DOLLAR
        /\ n >= 1
        /\ p + 1 + n <= Len(s)

\* re.search(r'\$\$.*?\$\$', content, re.DOTALL): $$, anything, the next $$
BlockMathAt(s, p) ==
    /\ StartsAt(s, p, <<DOLLAR, DOLLAR>>)
    /\ Find(s, p + 2, <<DOLLAR, DOLLAR>>) > 0

\* lines 132-139
check_latex_math(s) ==
    \/ \E p \in 1..Len(s) : InlineMathAt(s, p)
    \/ \E p \in 1..Len(s) : BlockMathAt(s, p)

\* lines 145-148: the fixed advisory text
ADVISORY == "LaTeX math detected"

\* lines 151-156: the four transforms in their fixed order
convert_content(body) ==
    convert_images(convert_code_blocks(convert_lists(convert_strikethrough(body))))

\* lines 144-148: self.warnings after convert_content(body)
WarningsAfter(w, body) ==
    IF check_latex_math(body) THEN Append(w, ADVISORY) ELSE w

-----------------------------------------------------------------------------
(* convert_frontmatter                                                     *)
(*                                                                         *)
(* A header map is a dict: a sequence of entries [key, value] with         *)
(* distinct keys, in insertion order.  A value is [t |-> "str", v |-> text],*)
(* [t |-> "list", v |-> sequence of texts] or [t |-> "bool", v |-> b].     *)

TAGS == <<"t", "a", "g", "s">>

COMMA_SPACE == <<",", " ">>

Str(text) == [t |-> "str", v |-> text]
List(elems) == [t |-> "list", v |-> elems]
Bool(b) == [t |-> "bool", v |-> b]
Entry(key, value) == [key |-> key, value |-> value]

\* TagsJoined that joins with a comma alone
TagsJoined_NoSpace(fm) ==
    [k \in 1..Len(fm) |->
        IF fm[k].key = TAGS /\ fm[k].value.t = "list"
        THEN [key |-> TAGS, value |-> [t |-> "str", v |-> Join(fm[k].value.v, <<",">>)]]
        ELSE fm[k]]

\* lines 22-24: the dict after the in-place rewrite of 'tags'
TagsJoined(fm) ==
    [k \in 1..Len(fm) |->
        IF fm[k].key = TAGS /\ fm[k].value.t = "list"
        THEN Entry(TAGS, Str(Join(fm[k].value.v, COMMA_SPACE)))
        ELSE fm[k]]

\* the order yaml.dump sorts the keys in (sort_keys defaults to True)
LETTERS ==
    <<"a", "b", "c", "d", "e", "f", "g", "h", "i", "j", "k", "l", "m",
      "n", "o", "p", "q", "r", "s", "t", "u", "v", "w", "x", "y", "z">>

Rank(c) == CHOOSE k \in 1..Len(LETTERS) : LETTERS[k] = c

RECURSIVE KeyLess(_, _)
KeyLess(a, b) ==
    IF Len(b) = 0 THEN FALSE
    ELSE IF Len(a) = 0 THEN TRUE
    ELSE IF a[1] = b[1] THEN KeyLess(Tail(a), Tail(b))
    ELSE Rank(a[1]) < Rank(b[1])

RECURSIVE SortByKey(_)
SortByKey(fm) ==
    IF Len(fm) = 0 THEN <<>>
    ELSE LET k == CHOOSE j \in 1..Len(fm) :
                      \A h \in 1..Len(fm) : h = j \/ KeyLess(fm[j].key, fm[h].key)
         IN  <<fm[k]>> \o SortByKey(SubSeq(fm, 1, k - 1) \o SubSeq(fm, k + 1, Len(fm)))

\* one field in block style: 'key: value', 'key: []' or 'key:' and '- item' lines
DumpEntry(en) ==
    IF en.value.t = "str"
    THEN en.key \o <<":", " ">>
         \o (IF en.value.v = <<>> THEN <<"'", "'">> ELSE en.value.v) \o <<NL>>
    ELSE IF en.value.t = "bool"
    THEN en.key \o <<":", " ">>
         \o (IF en.value.v THEN <<"t", "r", "u", "e">> ELSE <<"f", "a", "l", "s", "e">>)
         \o <<NL>>
    ELSE IF en.value.v = <<>>
    THEN en.key \o <<":", " ", "[", "]", NL>>
    ELSE en.key \o <<":", NL>>
         \o Flatten([k \in 1..Len(en.value.v) |-> <<"-", " ">> \o en.value.v[k] \o <<NL>>])

\* line 27: yaml.dump(frontmatter, default_flow_style=False, allow_unicode=True)
yaml_dump(fm) ==
    IF Len(fm) = 0 THEN <<"{", "}", NL>>
    ELSE LET sorted == SortByKey(fm)
         IN  Flatten([k \in 1..Len(sorted) |-> DumpEntry(sorted[k])])

\* line 27 on a str: a plain scalar at the root is followed by the
\* document end marker
yaml_dump_scalar(v) == v \o <<NL, ".", ".", ".", NL>>

\* lines 20-27: the text convert_frontmatter returns
convert_frontmatter(fm) == yaml_dump(TagsJoined(fm))

-----------------------------------------------------------------------------
(* convert_file                                                            *)

DELIM == <<"-", "-", "-", NL>>

\* str.split(sep) for a text sep
RECURSIVE SplitOn(_, _)
SplitOn(s, sep) ==
    LET k == Find(s, 1, sep)
    IN  IF k = 0 THEN <<s>>
        ELSE <<SubSeq(s, 1, k - 1)>> \o SplitOn(From(s, k + Len(sep)), sep)

\* What yaml.safe_load makes of one line of the header texts the model
\* feeds it: 'key: scalar' (true and false are booleans, two single quotes
\* are the empty str) and the flow
\* sequence 'key: [a, b]' are fields; a flow sequence that is not closed is
\* a parse error, and so is a line with no 'key: '.
LoadLine(line) ==
    LET k == Find(line, 1, <<":", " ">>)
        v == From(line, k + 2)
    IN  IF k <= 1 \/ Len(v) = 0 THEN [t |-> "error"]
        ELSE IF v = <<"'", "'">>
        THEN [t |-> "field", key |-> SubSeq(line, 1, k - 1), value |-> Str(<<>>)]
        ELSE IF v = <<"t", "r", "u", "e">>
        THEN [t |-> "field", key |-> SubSeq(line, 1, k - 1), value |-> Bool(TRUE)]
        ELSE IF v = <<"f", "a", "l", "s", "e">>
        THEN [t |-> "field", key |-> SubSeq(line, 1, k - 1), value |-> Bool(FALSE)]
        ELSE IF v[1] # "["
        THEN [t |-> "field", key |-> SubSeq(line, 1, k - 1), value |-> Str(v)]
        ELSE IF v[Len(v)] # "]" THEN [t |-> "error"]
        ELSE [t |-> "field", key |-> SubSeq(line, 1, k - 1),
              value |-> List(IF Len(v) = 2 THEN <<>>
                             ELSE SplitOn(SubSeq(v, 2, Len(v) - 1), COMMA_SPACE))]

\* dict[key] = value: a key already there keeps its place
DictSet(fm, key, value) ==
    IF \E k \in 1..Len(fm) : fm[k].key = key
    THEN [k \in 1..Len(fm) |-> IF fm[k].key = key THEN Entry(key, value) ELSE fm[k]]
    ELSE Append(fm, Entry(key, value))

RECURSIVE LoadLines(_, _)
LoadLines(ls, fm) ==
    IF Len(ls) = 0 THEN [t |-> "map", m |-> fm]
    ELSE LET f == LoadLine(ls[1])
         IN  IF f.t = "error" THEN [t |-> "error"]
             ELSE LoadLines(Tail(ls), DictSet(fm, f.key, f.value))

\* the lines of a header text that are not blank
NonBlank(ls) == SelectSeq(ls, LAMBDA l : l # <<>>)

\* line 173: yaml.safe_load(frontmatter_text) on the header texts of the
\* model: None for an empty text, a str for lines of plain words with no
\* 'key: ' (one plain scalar, its line breaks folded to blanks), a dict for
\* lines of fields, or a raised yaml.YAMLError
yaml_safe_load(text) ==
    LET ls == NonBlank(Split(text, NL))
    IN  IF Len(ls) = 0 THEN [t |-> "none"]
        ELSE IF \A k \in 1..Len(ls) : Find(ls[k], 1, <<":", " ">>) = 0
        THEN [t |-> "scalar", v |-> Join(ls, <<" ">>)]
        ELSE LoadLines(ls, <<>>)

\* lines 166-170: the header text and the body of a document, when the
\* document starts with the delimiter line and holds a second '---\n'
HasHeader(doc) == StartsAt(doc, 1, DELIM) /\ Find(doc, 5, DELIM) > 0

FrontmatterText(doc) == SubSeq(doc, 5, Find(doc, 5, DELIM) - 1)

FileBody(doc) == IF HasHeader(doc) THEN From(doc, Find(doc, 5, DELIM) + 4) ELSE doc

\* lines 173-176 raise: the parser on a malformed header, and
\* convert_frontmatter on None ('tags' in None is a TypeError) or on a str
\* that holds 'tags' (frontmatter['tags'] is a TypeError)
HeaderRaises(doc) ==
    /\ HasHeader(doc)
    /\ LET loaded == yaml_safe_load(FrontmatterText(doc))
       IN  \/ loaded.t \in {"none", "error"}
           \/ loaded.t = "scalar" /\ Find(loaded.v, 1, TAGS) > 0

\* line 160 with the reset left out: the list of the earlier calls stays
ResetWarnings_Kept == warnings

\* line 160: self.warnings = []
ResetWarnings == <<>>

\* lines 165-188: the outcome of convert_file on the text doc of the file,
\* with w the warnings at that point; header and frontmatter are the fields
\* of the loaded dict before and after convert_frontmatter (a loaded str has
\* no fields)
ConvertText(doc, w) ==
    IF HeaderRaises(doc)
    THEN [outcome |-> "error", warnings |-> w, out |-> <<>>,
          header |-> <<>>, frontmatter |-> <<>>]
    ELSE LET loaded == IF HasHeader(doc) THEN yaml_safe_load(FrontmatterText(doc))
                       ELSE [t |-> "map", m |-> <<>>]
             hdr == IF loaded.t = "map" THEN loaded.m ELSE <<>>
             converted_frontmatter ==
                 IF loaded.t = "map" THEN convert_frontmatter(hdr)
                 ELSE yaml_dump_scalar(loaded.v)
         IN  [outcome |-> "ok",
              warnings |-> WarningsAfter(w, FileBody(doc)),
              header |-> hdr,
              frontmatter |-> TagsJoined(hdr),
              out |-> IF HasHeader(doc)
                      THEN DELIM \o converted_frontmatter \o DELIM
                           \o convert_content(FileBody(doc))
                      ELSE convert_content(doc)]

-----------------------------------------------------------------------------
(* One-call specifications of the pure transforms                          *)

\* the variables of the list loop and of the converter, at rest
InitRest ==
    /\ lines = <<>>
    /\ i = 0
    /\ result = <<>>
    /\ in_ul = FALSE
    /\ in_ol = FALSE
    /\ indent_level = 0
    /\ pc = "start"
    /\ InitIdle

Texts(alphabet, n) == UNION { [1..k -> alphabet] : k \in 0..n }

\* the call returns text
Return(text) ==
    /\ pc = "start"
    /\ out' = text
    /\ pc' = "done"
    /\ outcome' = "ok"
    /\ UNCHANGED <<tools, cli, content, lines, i, result, in_ul, in_ol, indent_level,
                   warnings, header, frontmatter>>

MaxStrikeLen == 7

StrikeAlphabet == {"~", "a", "b", NL}

InitStrike == content \in Texts(StrikeAlphabet, MaxStrikeLen) /\ InitRest

CallStrikethrough == Return(convert_strikethrough(content))

SpecStrike == InitStrike /\ [][CallStrikethrough]_vars

MaxCodeParts == 7

CodeFragments == { FENCE, <<"p">>, <<NL>> }

CodeInputs ==
    UNION { { Flatten(fs) : fs \in [1..n -> CodeFragments] } : n \in 0..MaxCodeParts }

InitCode == content \in CodeInputs /\ InitRest

CallCodeBlocks == Return(convert_code_blocks(content))

SpecCode == InitCode /\ [][CallCodeBlocks]_vars

MaxImgParts == 2

SQ == "'"

\* an attribute: name, quote, value, quote
Attr(name, quote, value) == name \o <<quote>> \o value \o <<quote>>

\* an img element: the attributes in the given order, after white space ws,
\* then the text trail, then '>'
ImgElement(el) ==
    IMG_TAG \o el.ws
    \o (IF el.srcFirst
        THEN Attr(SRC_EQ, el.srcQuote, el.src) \o <<" ">> \o Attr(ALT_EQ, el.altQuote, el.alt)
        ELSE Attr(ALT_EQ, el.altQuote, el.alt) \o <<" ">> \o Attr(SRC_EQ, el.srcQuote, el.src))
    \o el.trail \o <<">">>

ImgValues(name) ==
    { [quote |-> DQ, value |-> <<name>>],
      [quote |-> DQ, value |-> <<>>],
      [quote |-> SQ, value |-> <<name>>] }

\* every order, quoting and emptiness of the two attributes, and the
\* convertible shape with other white space and with trailing text
ImgElements ==
    { [srcFirst |-> o, srcQuote |-> sv.quote, src |-> sv.value,
       altQuote |-> av.quote, alt |-> av.value, ws |-> <<" ">>, trail |-> <<>>] :
          o \in BOOLEAN, sv \in ImgValues("u"), av \in ImgValues("t") }
    \cup
    { [srcFirst |-> TRUE, srcQuote |-> DQ, src |-> <<"u", "/", "v">>,
       altQuote |-> DQ, alt |-> <<"t">>, ws |-> w, trail |-> t] :
          w \in { <<NL, " ">> },
          t \in { <<" ", "w", "=", DQ, "1", DQ>>, <<" ", "/">>, <<"/">> } }

ImgPieces == { ImgElement(el) : el \in ImgElements } \cup { <<"x">> }

ImgInputs ==
    UNION { { Flatten(fs) : fs \in [1..n -> ImgPieces] } : n \in 0..MaxImgParts }

InitImages == content \in ImgInputs /\ InitRest

CallImages == Return(convert_images(content))

SpecImages == InitImages /\ [][CallImages]_vars

MaxProseParts == 4

MaxMathParts == 5

PieceTexts(pieces, n) ==
    UNION { { Flatten(fs) : fs \in [1..k -> pieces] } : k \in 0..n }

\* prose with the characters the source dialect is made of
ProseFragments ==
    { <<"-">>, <<" ">>, <<"1", ".">>, <<"a">>, <<NL>>, TILDES, FENCE }

\* math spans around strikethrough markup
MathFragments == { <<DOLLAR>>, TILDES, <<"a">>, <<NL>> }

MaxFenceLines == 2

\* lines of a code listing that look like markup of the source dialect
FenceLines ==
    { <<"-", " ", "a", NL>>,
      TILDES \o <<"a">> \o TILDES \o <<NL>>,
      IMG_TAG \o <<" ">> \o SRC_EQ \o <<DQ, "u", DQ, " ">> \o ALT_EQ \o <<DQ, "t", DQ, ">", NL>>,
      <<"p", NL>> }

\* one fenced block: the opener line, the lines of the listing, the closer
FencedInputs ==
    { FENCE \o <<NL>> \o t \o FENCE : t \in PieceTexts(FenceLines, MaxFenceLines) }

ContentInputs ==
    PieceTexts(ProseFragments, MaxProseParts) \cup PieceTexts(MathFragments, MaxMathParts)
    \cup FencedInputs

InitContent == content \in ContentInputs /\ InitRest

\* lines 141-156
CallConvertContent ==
    /\ pc = "start"
    /\ warnings' = WarningsAfter(warnings, content)
    /\ out' = convert_content(content)
    /\ pc' = "done"
    /\ outcome' = "ok"
    /\ UNCHANGED <<tools, cli, content, lines, i, result, in_ul, in_ol, indent_level, header,
                   frontmatter>>

SpecContent == InitContent /\ [][CallConvertContent]_vars

MaxFields == 2

HeaderKeys == { TAGS, <<"t", "i", "t", "l", "e">>, <<"c", "a", "t", "s">>, <<"d", "a", "t", "e">> }

HeaderValues ==
    { Str(<<"x">>), List(<<>>), List(<<<<"a">>>>), List(<<<<"a">>, <<"b">>>>) }

\* the dicts of at most n fields: distinct keys, any insertion order
HeaderMaps(n) ==
    UNION { { fm \in [1..k -> { Entry(key, v) : key \in HeaderKeys, v \in HeaderValues }] :
                \A a \in 1..k, b \in 1..k : a # b => fm[a].key # fm[b].key }
            : k \in 0..n }

InitFrontmatter ==
    /\ header \in HeaderMaps(MaxFields)
    /\ frontmatter = header
    /\ content = <<>>
    /\ out = <<>>
    /\ lines = <<>>
    /\ i = 0
    /\ result = <<>>
    /\ in_ul = FALSE
    /\ in_ol = FALSE
    /\ indent_level = 0
    /\ warnings = <<>>
    /\ outcome = "none"
    /\ pc = "start"
    /\ InitCli

\* lines 20-27: the dict is rewritten in place, its dump is returned
CallConvertFrontmatter ==
    /\ pc = "start"
    /\ frontmatter' = TagsJoined(frontmatter)
    /\ out' = yaml_dump(frontmatter')
    /\ pc' = "done"
    /\ outcome' = "ok"
    /\ UNCHANGED <<tools, cli, content, lines, i, result, in_ul, in_ol, indent_level, warnings,
                   header>>

SpecFrontmatter == InitFrontmatter /\ [][CallConvertFrontmatter]_vars

MaxHeaderLines == 2

HeaderLines ==
    { TAGS \o <<":", " ", "[", "a", ",", " ", "b", "]", NL>>,
      <<"t", "i", "t", "l", "e", ":", " ", "x", NL>>,
      TAGS \o <<":", " ", "[", "a", NL>>,
      <<"t", "i", "t", "l", "e", ":", " ", "x", "-", "-", "-", NL>>,
      <<"x", NL>> }

\* bodies with no math, one inline span, an inline and a block span, a
\* block span of several lines, and a line of three dashes
FileBodies ==
    { <<>>,
      <<"a", NL>>,
      <<DOLLAR, "a", DOLLAR, NL>>,
      <<DOLLAR, "a", DOLLAR, " ", DOLLAR, DOLLAR, "b", DOLLAR, DOLLAR, NL>>,
      <<DOLLAR, DOLLAR, NL, "a", NL, DOLLAR, DOLLAR>>,
      <<"a", NL>> \o DELIM \o <<"b", NL>> }

\* no header; a header closed by the second delimiter line; a header that
\* is never closed; a header closed by a last line with no line break
FileInputs ==
    { h \o b : h \in { <<>> } \cup
                     { DELIM \o t \o d : t \in PieceTexts(HeaderLines, MaxHeaderLines),
                                         d \in { DELIM, <<>> } },
               b \in FileBodies }
    \cup { DELIM \o t \o <<"-", "-", "-">> : t \in PieceTexts(HeaderLines, MaxHeaderLines) }

\* line 18: a new converter
InitFile ==
    /\ warnings = <<>>
    /\ content = <<>>
    /\ out = <<>>
    /\ header = <<>>
    /\ frontmatter = <<>>
    /\ outcome = "none"
    /\ lines = <<>>
    /\ i = 0
    /\ result = <<>>
    /\ in_ul = FALSE
    /\ in_ol = FALSE
    /\ indent_level = 0
    /\ pc = "idle"
    /\ InitCli

\* lines 158-163: convert_file resets the warnings, opens the file and
\* reads its text
ReadFile ==
    /\ pc = "idle"
    /\ warnings' = ResetWarnings
    /\ content' \in FileInputs
    /\ outcome' = "running"
    /\ out' = <<>>
    /\ header' = <<>>
    /\ frontmatter' = <<>>
    /\ pc' = "read"
    /\ UNCHANGED <<tools, cli, lines, i, result, in_ul, in_ol, indent_level>>

\* lines 160-162: convert_file on a path that cannot be opened; the warnings
\* are reset before open() raises
ConvertMissingFile ==
    /\ pc = "idle"
    /\ warnings' = ResetWarnings
    /\ outcome' = "missing"
    /\ content' = <<>>
    /\ out' = <<>>
    /\ header' = <<>>
    /\ frontmatter' = <<>>
    /\ UNCHANGED <<tools, cli, pc, lines, i, result, in_ul, in_ol, indent_level>>

\* lines 165-188: convert_file splits, converts and returns, or raises
ConvertFile ==
    /\ pc = "read"
    /\ LET r == ConvertText(content, warnings)
       IN  /\ warnings' = r.warnings
           /\ outcome' = r.outcome
           /\ out' = r.out
           /\ header' = r.header
           /\ frontmatter' = r.frontmatter
    /\ pc' = "idle"
    /\ UNCHANGED <<tools, cli, content, lines, i, result, in_ul, in_ol, indent_level>>

NextFile == ReadFile \/ ConvertMissingFile \/ ConvertFile

SpecFile == InitFile /\ [][NextFile]_vars

-----------------------------------------------------------------------------
(* main of the converter: one run of the command line program              *)

\* lines 196-202: the command line is parsed; output says whether --output
\* names a file
InitMain ==
    /\ args \in [output : BOOLEAN]
    /\ exit_status = -1
    /\ written = NoOutput
    /\ entry = NoEntry
    /\ InitTools
    /\ warnings = <<>>
    /\ content = <<>>
    /\ out = <<>>
    /\ header = <<>>
    /\ frontmatter = <<>>
    /\ outcome = "none"
    /\ lines = <<>>
    /\ i = 0
    /\ result = <<>>
    /\ in_ul = FALSE
    /\ in_ol = FALSE
    /\ indent_level = 0
    /\ pc = "main"

\* lines 205-207: the input file does not exist
MainMissingFile ==
    /\ pc = "main"
    /\ outcome' = "missing"
    /\ exit_status' = 1
    /\ pc' = "exited"
    /\ UNCHANGED <<tools, content, out, lines, i, result, in_ul, in_ol, indent_level,
                   warnings, header, frontmatter, args, written, entry>>

\* lines 210-212 and 158-163: a converter is made, convert_file resets the
\* warnings and reads the file
MainReadFile ==
    /\ pc = "main"
    /\ warnings' = ResetWarnings
    /\ content' \in FileInputs
    /\ outcome' = "running"
    /\ pc' = "convert"
    /\ UNCHANGED <<tools, out, lines, i, result, in_ul, in_ol, indent_level, header,
                   frontmatter, cli>>

\* lines 212-229: convert_file returns and the result is written to the
\* file or printed, or it raises and the handler exits with status 1
MainConvert ==
    /\ pc = "convert"
    /\ LET r == ConvertText(content, warnings)
       IN  /\ warnings' = r.warnings
           /\ outcome' = r.outcome
           /\ out' = r.out
           /\ header' = r.header
           /\ frontmatter' = r.frontmatter
           /\ IF r.outcome = "ok"
              THEN /\ written' = [dest |-> IF args.output THEN "file" ELSE "stdout",
                                  text |-> r.out]
                   /\ exit_status' = 0
              ELSE /\ written' = written
                   /\ exit_status' = 1
    /\ pc' = "exited"
    /\ UNCHANGED <<tools, content, lines, i, result, in_ul, in_ol, indent_level, args,
                   entry>>

NextMain == MainMissingFile \/ MainReadFile \/ MainConvert

SpecMain == InitMain /\ [][NextMain]_vars

-----------------------------------------------------------------------------
(* The uploader (src/hatena_oauth_uploader.py): one run of main that posts *)
(* a Markdown file, after authenticate() has succeeded                     *)

\* str.strip()
RECURSIVE RStrip(_)
RStrip(s) ==
    IF Len(s) > 0 /\ s[Len(s)] \in Whitespace THEN RStrip(SubSeq(s, 1, Len(s) - 1)) ELSE s

Strip(s) == RStrip(LStrip(s))

HYPHENS == <<"-", "-", "-">>

\* lines 174-198: parse_markdown_front_matter; the front matter is {} when
\* there is no header, when the header is empty and when the parser raises
parse_markdown_front_matter(doc) ==
    IF StartsAt(doc, 1, HYPHENS) /\ Find(doc, 4, HYPHENS) > 0
    THEN LET e == Find(doc, 4, HYPHENS)
             loaded == yaml_safe_load(Strip(SubSeq(doc, 4, e - 1)))
         IN  [front_matter |-> IF loaded.t \in {"none", "error"}
                               THEN [t |-> "map", m |-> <<>>] ELSE loaded,
              content |-> Strip(From(doc, e + 3))]
    ELSE [front_matter |-> [t |-> "map", m |-> <<>>], content |-> doc]

\* key in dict, dict[key]
HasKey(fm, key) == \E k \in 1..Len(fm) : fm[k].key = key

Lookup(fm, key) == fm[CHOOSE k \in 1..Len(fm) : fm[k].key = key].value

\* the truth value of a header value
Truthy(value) == IF value.t = "bool" THEN value.v ELSE Len(value.v) > 0

TITLE == <<"t", "i", "t", "l", "e">>
CATEGORIES == <<"c", "a", "t", "e", "g", "o", "r", "i", "e", "s">>
DRAFT == <<"d", "r", "a", "f", "t">>
STEM == <<"f">>

\* lines 389-396: the categories of the post
CategoriesOf(fm) ==
    IF HasKey(fm, CATEGORIES) THEN Lookup(fm, CATEGORIES)
    ELSE IF HasKey(fm, TAGS) THEN Lookup(fm, TAGS)
    ELSE List(<<>>)

\* line 399: is_draft = front_matter.get('draft', False); the draft
\* argument of upload_file is not read
IsDraft(fm, draft) == HasKey(fm, DRAFT) /\ Truthy(Lookup(fm, DRAFT))

\* lines 291-296: one category element per element of categories, its term
\* stripped; the elements of a str are its characters
CategoryTerms(categories) ==
    IF categories.t = "list"
    THEN [k \in 1..Len(categories.v) |-> Strip(categories.v[k])]
    ELSE [k \in 1..Len(categories.v) |-> Strip(<<categories.v[k]>>)]

\* lines 245-304: the entry create_atom_entry builds; draft says that the
\* app:control element with app:draft 'yes' is there
create_atom_entry(title, categories, draft) ==
    [built |-> TRUE, title |-> title, categories |-> CategoryTerms(categories),
     draft |-> draft]

\* lines 384-452 and 318-331: the entry upload_file has built for a file of
\* text doc whose front matter is a dict
upload_file_entry(doc, draft) ==
    LET fm == parse_markdown_front_matter(doc).front_matter.m
    IN  create_atom_entry(IF HasKey(fm, TITLE) THEN Lookup(fm, TITLE).v ELSE STEM,
                          CategoriesOf(fm),
                          IsDraft(fm, draft))

MaxUploadLines == 2

UploadHeaderLines ==
    { TITLE \o <<":", " ", "x", NL>>,
      DRAFT \o <<":", " ", "t", "r", "u", "e", NL>>,
      DRAFT \o <<":", " ", "f", "a", "l", "s", "e", NL>>,
      TAGS \o <<":", " ", "[", "a", ",", " ", "b", "]", NL>>,
      TAGS \o <<":", " ", "a", ",", " ", "b", NL>>,
      TAGS \o <<":", " ", "[", "a", NL>>,
      <<"x", NL>> }

UploadInputs ==
    { <<"a", NL>> }
    \cup { HYPHENS \o <<NL>> \o t \o HYPHENS \o <<NL, "a", NL>> :
              t \in PieceTexts(UploadHeaderLines, MaxUploadLines) }

\* lines 636-679: the command line of the uploader is parsed
InitUpload ==
    /\ args \in [draft : BOOLEAN, preview : BOOLEAN]
    /\ exit_status = -1
    /\ written = NoOutput
    /\ entry = NoEntry
    /\ InitTools
    /\ warnings = <<>>
    /\ content = <<>>
    /\ out = <<>>
    /\ header = <<>>
    /\ frontmatter = <<>>
    /\ outcome = "none"
    /\ lines = <<>>
    /\ i = 0
    /\ result = <<>>
    /\ in_ul = FALSE
    /\ in_ol = FALSE
    /\ indent_level = 0
    /\ pc = "upload"

\* lines 376-379 and 717-719: the file does not exist, upload_file returns
\* False and main exits with status 1
UploadMissingFile ==
    /\ pc = "upload"
    /\ outcome' = "missing"
    /\ exit_status' = 1
    /\ pc' = "exited"
    /\ UNCHANGED <<tools, content, out, lines, i, result, in_ul, in_ol, indent_level,
                   warnings, header, frontmatter, args, written, entry>>

\* lines 381-382: the file is read
UploadReadFile ==
    /\ pc = "upload"
    /\ content' \in UploadInputs
    /\ outcome' = "running"
    /\ pc' = "parse"
    /\ UNCHANGED <<tools, out, lines, i, result, in_ul, in_ol, indent_level, warnings,
                   header, frontmatter, cli>>

\* lines 384-452 and 318-333: the front matter is parsed, the fields of the
\* post are taken from it and the entry is built; with --preview the run
\* ends here.  A front matter that is a str has no get(): the run ends with
\* a traceback.
UploadBuildEntry ==
    /\ pc = "parse"
    /\ LET parsed == parse_markdown_front_matter(content)
           fm == parsed.front_matter.m
       IN  IF parsed.front_matter.t # "map"
           THEN /\ outcome' = "error"
                /\ exit_status' = 1
                /\ pc' = "exited"
                /\ UNCHANGED <<tools, header, entry>>
           ELSE /\ header' = fm
                /\ entry' = upload_file_entry(content, args.draft)
                /\ outcome' = "ok"
                /\ exit_status' = IF args.preview THEN 0 ELSE exit_status
                /\ pc' = IF args.preview THEN "exited" ELSE "post"
    /\ UNCHANGED <<tools, content, out, lines, i, result, in_ul, in_ol, indent_level,
                   warnings, frontmatter, args, written>>

\* lines 347-356 and 715-716: the server answers 201
UploadPosted ==
    /\ pc = "post"
    /\ exit_status' = 0
    /\ pc' = "exited"
    /\ UNCHANGED <<tools, content, out, lines, i, result, in_ul, in_ol, indent_level,
                   warnings, header, frontmatter, outcome, args, written, entry>>

\* lines 357-370 and 717-719: the server answers another status, or the
\* request fails
UploadRejected ==
    /\ pc = "post"
    /\ outcome' = "error"
    /\ exit_status' = 1
    /\ pc' = "exited"
    /\ UNCHANGED <<tools, content, out, lines, i, result, in_ul, in_ol, indent_level,
                   warnings, header, frontmatter, args, written, entry>>

NextUpload ==
    \/ UploadMissingFile
    \/ UploadReadFile
    \/ UploadBuildEntry
    \/ UploadPosted
    \/ UploadRejected

SpecUpload == InitUpload /\ [][NextUpload]_vars

-----------------------------------------------------------------------------
(* The converter and the uploader one after the other: a document is       *)
(* converted with convert_file, the converted text is saved and posted     *)
(* with upload_file                                                        *)

MaxTags == 2

TagNames == { <<"a">>, <<"b">>, <<"c", "d">> }

TagLists == UNION { [1..n -> TagNames] : n \in 0..MaxTags }

\* the header line 'tags: [t1, ..., tn]'
TagsLine(tags) == TAGS \o <<":", " ", "[">> \o Join(tags, COMMA_SPACE) \o <<"]", NL>>

\* documents with a tags field, alone or with a title field before or
\* after it, and a body
PipelineInputs ==
    { DELIM \o before \o TagsLine(tags) \o after \o DELIM \o <<"a", NL>> :
          tags \in TagLists,
          before \in { <<>>, TITLE \o <<":", " ", "x", NL>> },
          after \in { <<>>, TITLE \o <<":", " ", "x", NL>> } }

InitPipeline ==
    /\ args \in [draft : BOOLEAN, preview : BOOLEAN]
    /\ content \in PipelineInputs
    /\ exit_status = -1
    /\ written = NoOutput
    /\ entry = NoEntry
    /\ InitTools
    /\ warnings = <<>>
    /\ out = <<>>
    /\ header = <<>>
    /\ frontmatter = <<>>
    /\ outcome = "none"
    /\ lines = <<>>
    /\ i = 0
    /\ result = <<>>
    /\ in_ul = FALSE
    /\ in_ol = FALSE
    /\ indent_level = 0
    /\ pc = "pipeline"

\* converter, lines 158-188 and 219-222: convert_file on the document; the
\* result is written to the output file
PipelineConvert ==
    /\ pc = "pipeline"
    /\ LET r == ConvertText(content, ResetWarnings)
       IN  /\ warnings' = r.warnings
           /\ outcome' = r.outcome
           /\ out' = r.out
           /\ header' = r.header
           /\ frontmatter' = r.frontmatter
           /\ IF r.outcome = "ok"
              THEN /\ written' = [dest |-> "file", text |-> r.out]
                   /\ exit_status' = exit_status
                   /\ pc' = "converted"
              ELSE /\ written' = written
                   /\ exit_status' = 1
                   /\ pc' = "exited"
    /\ UNCHANGED <<tools, content, lines, i, result, in_ul, in_ol, indent_level,
                   args, entry>>

\* uploader, lines 374-452 and 318-333: upload_file on the converted file
PipelineUpload ==
    /\ pc = "converted"
    /\ IF parse_markdown_front_matter(written.text).front_matter.t # "map"
       THEN /\ outcome' = "error"
            /\ exit_status' = 1
            /\ pc' = "exited"
            /\ entry' = entry
       ELSE /\ entry' = upload_file_entry(written.text, args.draft)
            /\ outcome' = "ok"
            /\ exit_status' = IF args.preview THEN 0 ELSE exit_status
            /\ pc' = IF args.preview THEN "exited" ELSE "post"
    /\ UNCHANGED <<tools, content, out, lines, i, result, in_ul, in_ol,
                   indent_level, warnings, header, frontmatter, args, written>>

NextPipeline == PipelineConvert \/ PipelineUpload \/ UploadPosted \/ UploadRejected

SpecPipeline == InitPipeline /\ [][NextPipeline]_vars

-----------------------------------------------------------------------------
(* Claims about convert_strikethrough, checked under SpecStrike            *)

\* content[p .. e+1] is ~~X~~ with X = content[p+2 .. e-1]
SpanAt(p, e) ==
    /\ StartsAt(content, p, TILDES)
    /\ e >= p + 2
    /\ StartsAt(content, e, TILDES)

SpanText(p, e) == SubSeq(content, p + 2, e - 1)

Positions == 1..Len(content)

\* C6 as stated: for every ~~X~~ of the input with no ~~ inside X the output
\* holds <s>X</s> exactly once, and an input whose only ~~ is unpaired is
\* returned unchanged.
C6_AsStated ==
    pc = "done" =>
        /\ \A p \in Positions, e \in Positions :
               (SpanAt(p, e) /\ Count(SpanText(p, e), TILDES) = 0) =>
                   Count(out, S_OPEN \o SpanText(p, e) \o S_CLOSE) = 1
        /\ Count(content, TILDES) = 1 => out = content

\* the span ~~X~~ at p..e+1 is opened by the first ~~ of the input, and X is
\* not empty, has no newline and no ~~ inside and does not end in ~
PlainFirstSpan(p, e) ==
    /\ SpanAt(p, e)
    /\ p = Find(content, 1, TILDES)
    /\ e >= p + 3
    /\ Count(SpanText(p, e), TILDES) = 0
    /\ Count(SpanText(p, e), <<NL>>) = 0
    /\ content[e - 1] # "~"

\* C6, amended: when the first ~~ of the input opens a span ~~X~~ whose X is
\* not empty, has no newline and no ~~ inside and does not end in ~, the
\* output is the text before the span, unchanged, then <s>X</s> with X byte
\* for byte, then the conversion of the rest, which holds no further copy of
\* the span unless the input does; an input whose only ~~ is unpaired is
\* returned unchanged.
C6_Strikethrough ==
    pc = "done" =>
        /\ \A p \in Positions, e \in Positions :
               PlainFirstSpan(p, e) =>
                   LET X == SpanText(p, e)
                       n == (p - 1) + Len(S_OPEN) + Len(X) + Len(S_CLOSE)
                   IN  /\ Len(out) >= n
                       /\ SubSeq(out, 1, n) =
                              SubSeq(content, 1, p - 1) \o S_OPEN \o X \o S_CLOSE
                       /\ Count(From(content, e + 2), TILDES) = 0 =>
                              /\ From(out, n + 1) = From(content, e + 2)
                              /\ Count(out, S_OPEN \o X \o S_CLOSE) = 1
        /\ Count(content, TILDES) = 1 => out = content

\* a span with text before it and a two-character X has been converted
C6_Witness ==
    /\ pc = "done"
    /\ \E p \in Positions, e \in Positions :
           /\ PlainFirstSpan(p, e)
           /\ p > 1
           /\ e = p + 4
           /\ Count(out, S_OPEN \o SpanText(p, e) \o S_CLOSE) = 1

-----------------------------------------------------------------------------
(* Claims about convert_code_blocks, checked under SpecCode                *)

\* where the opener of a fence at p ends: after the fence and the word
\* characters that follow it
OpenerEnd(p) == p + 3 + RunLen(content, p + 3, WordChars)

\* content has a fenced block: a fence at p, an optional language tag, the
\* newline of the opener at q, and the first fence after q at e
Block(p, q, e) ==
    /\ StartsAt(content, p, FENCE)
    /\ q = OpenerEnd(p)
    /\ q <= Len(content)
    /\ content[q] = NL
    /\ e > q
    /\ StartsAt(content, e, FENCE)
    /\ \A r \in (q + 1)..(e - 1) : ~StartsAt(content, r, FENCE)

LineInitial(p) == p = 1 \/ content[p - 1] = NL

\* the number of fences that start in content[a .. b]
FencesIn(a, b) == Cardinality({ r \in a..b : StartsAt(content, r, FENCE) })

BodyOf(q, e) == SubSeq(content, q + 1, e - 1)

\* t is body with four spaces put before each of its lines, and nothing else
IsIndented(t, body) ==
    LET bl == Split(body, NL)
        tl == Split(t, NL)
    IN  /\ Len(tl) = Len(bl)
        /\ \A k \in 1..Len(bl) : tl[k] = <<" ", " ", " ", " ">> \o bl[k]

\* the length of body with four spaces put before each of its lines
IndentedLen(body) == Len(body) + 4 * Len(Split(body, NL))

\* C4: a fenced block (line-initial opener with optional language tag, body,
\* first following closer) is replaced by its body with exactly four spaces
\* before every body line, blank lines included; the fences and the language
\* tag are gone, the replacement has as many lines as the body, the text
\* around the blocks stays, and a fence that has no closer stays as it is.
C4_CodeBlocks ==
    pc = "done" =>
        /\ \A p \in Positions, e \in Positions :
               (Block(p, OpenerEnd(p), e) /\ LineInitial(p) /\ FencesIn(1, p - 1) = 0) =>
                   LET q == OpenerEnd(p)
                       n == (p - 1) + IndentedLen(BodyOf(q, e))
                   IN  /\ Len(out) >= n
                       /\ SubSeq(out, 1, p - 1) = SubSeq(content, 1, p - 1)
                       /\ IsIndented(SubSeq(out, p, n), BodyOf(q, e))
                       /\ FencesIn(e + 3, Len(content)) <= 1 =>
                              From(out, n + 1) = From(content, e + 3)
                       /\ \A p2 \in Positions, e2 \in Positions :
                              ( /\ p2 >= e + 3
                                /\ Block(p2, OpenerEnd(p2), e2)
                                /\ LineInitial(p2)
                                /\ FencesIn(e + 3, p2 - 1) = 0
                                /\ FencesIn(e2 + 3, Len(content)) = 0 ) =>
                                  LET q2 == OpenerEnd(p2)
                                      m == n + (p2 - (e + 3))
                                      n2 == m + IndentedLen(BodyOf(q2, e2))
                                  IN  /\ Len(out) >= n2
                                      /\ SubSeq(out, n + 1, m) =
                                             SubSeq(content, e + 3, p2 - 1)
                                      /\ IsIndented(SubSeq(out, m + 1, n2),
                                                    BodyOf(q2, e2))
                                      /\ From(out, n2 + 1) = From(content, e2 + 3)
        /\ FencesIn(1, Len(content)) = 1 => out = content

\* a block with a language tag and a body of a text line and a blank line,
\* with text before and after it, has been converted
C4_Witness ==
    /\ pc = "done"
    /\ \E p \in Positions, e \in Positions :
           /\ Block(p, OpenerEnd(p), e)
           /\ LineInitial(p)
           /\ FencesIn(1, p - 1) = 0
           /\ p > 1
           /\ OpenerEnd(p) > p + 3
           /\ Len(Split(BodyOf(OpenerEnd(p), e), NL)) >= 2
           /\ BodyOf(OpenerEnd(p), e) # <<NL>>
    /\ out # content

\* C5 as stated: a fence that is not at the start of its line opens no block
\* (it stays where it is in the output); and each opener is paired with the
\* first fence after it, so two blocks are converted one after the other.
C5_AsStated ==
    pc = "done" =>
        \A p \in Positions, e \in Positions :
            (Block(p, OpenerEnd(p), e) /\ FencesIn(1, p - 1) = 0) =>
                IF LineInitial(p)
                THEN LET body == BodyOf(OpenerEnd(p), e)
                         n == (p - 1) + IndentedLen(body)
                     IN  /\ Len(out) >= n
                         /\ IsIndented(SubSeq(out, p, n), body)
                ELSE /\ Len(out) >= p + 2
                     /\ SubSeq(out, 1, p + 2) = SubSeq(content, 1, p + 2)

-----------------------------------------------------------------------------
(* Claims about convert_images, checked under SpecImages                   *)

\* the shape the claim says is rewritten: src before alt, both values in
\* double quotes, src not empty
Convertible(el) ==
    /\ el.srcFirst
    /\ el.srcQuote = DQ
    /\ el.altQuote = DQ
    /\ el.src # <<>>

\* what the claim says the element becomes: ![ALT](URL), or itself
ImgExpected(el) ==
    IF Convertible(el)
    THEN <<"!", "[">> \o el.alt \o <<"]", "(">> \o el.src \o <<")">>
    ELSE ImgElement(el)

\* C7: an element <img src="URL" alt="ALT" ...> with double quotes, src
\* before alt, URL not empty and ALT possibly empty becomes ![ALT](URL), its
\* trailing attributes dropped; an element with an empty src, with alt
\* before src or with a single-quoted value stays as it is; the text around
\* the elements stays.
C7_Images ==
    pc = "done" =>
        \A el \in ImgElements :
            LET p  == Find(content, 1, IMG_TAG)
                r  == p + Len(ImgElement(el))
                n  == (p - 1) + Len(ImgExpected(el))
                p2 == Find(content, r, IMG_TAG)
            IN  (p > 0 /\ StartsAt(content, p, ImgElement(el))) =>
                    /\ Len(out) >= n
                    /\ SubSeq(out, 1, n) = SubSeq(content, 1, p - 1) \o ImgExpected(el)
                    /\ p2 = 0 => From(out, n + 1) = From(content, r)
                    /\ \A el2 \in ImgElements :
                           (p2 > 0 /\ StartsAt(content, p2, ImgElement(el2))) =>
                               LET m  == n + (p2 - r)
                                   r2 == p2 + Len(ImgElement(el2))
                                   n2 == m + Len(ImgExpected(el2))
                               IN  /\ Len(out) >= n2
                                   /\ SubSeq(out, n + 1, n2) =
                                          SubSeq(content, r, p2 - 1) \o ImgExpected(el2)
                                   /\ Find(content, r2, IMG_TAG) = 0 =>
                                          From(out, n2 + 1) = From(content, r2)

\* an element with alt before src and a convertible element with an empty
\* alt have been through the call, the first kept and the second rewritten
C7_Witness ==
    /\ pc = "done"
    /\ \E el \in ImgElements, el2 \in ImgElements :
           /\ ~el.srcFirst /\ el.srcQuote = DQ /\ el.altQuote = DQ /\ el.src # <<>>
           /\ Convertible(el2) /\ el2.alt = <<>>
           /\ content = ImgElement(el) \o ImgElement(el2)
           /\ out = ImgElement(el) \o <<"!", "[", "]", "(">> \o el2.src \o <<")">>

-----------------------------------------------------------------------------
(* Claims about convert_content, checked under SpecContent                 *)

\* no line of s is a bullet or an ordered line once stripped
NoListLine(s) ==
    \A k \in 1..Len(Split(s, NL)) :
        LET stripped == LStrip(Split(s, NL)[k])
        IN  /\ ~StartsAt(stripped, 1, <<"-", " ">>)
            /\ ~(\E d \in 1..Len(stripped) :
                    /\ \A j \in 1..d : stripped[j] \in Digits
                    /\ StartsAt(stripped, d + 1, <<".", " ">>))

\* s holds no two ~~ that do not overlap
NoTildePair(s) ==
    ~(\E p \in 1..Len(s), e \in 1..Len(s) :
         e >= p + 2 /\ StartsAt(s, p, TILDES) /\ StartsAt(s, e, TILDES))

NoSourceConstruct(s) ==
    /\ NoListLine(s)
    /\ NoTildePair(s)
    /\ Count(s, FENCE) = 0
    /\ Count(s, IMG_TAG) = 0

\* C3: a document with no list line, no ~~ pair, no fence and no img element
\* comes back from convert_content unchanged, character for character.
C3_ProseUnchanged ==
    (pc = "done" /\ NoSourceConstruct(content)) => out = content

\* prose of several lines with an indented line, a dash and a lone ~~ has
\* been converted
C3_Witness ==
    /\ pc = "done"
    /\ NoSourceConstruct(content)
    /\ Len(Split(content, NL)) >= 2
    /\ \E k \in 1..Len(Split(content, NL)) :
           StartsAt(Split(content, NL)[k], 1, <<" ">>)
           /\ LStrip(Split(content, NL)[k]) # <<>>
    /\ out = content

\* content[p .. e] is a math span: $, characters other than $, $; or $$,
\* anything, the next $$
InlineSpan(p, e) ==
    /\ e > p + 1
    /\ content[p] = DOLLAR
    /\ content[e] = DOLLAR
    /\ \A j \in (p + 1)..(e - 1) : content[j] # DOLLAR

BlockSpan(p, e) ==
    /\ StartsAt(content, p, <<DOLLAR, DOLLAR>>)
    /\ e >= p + 3
    /\ StartsAt(content, e - 1, <<DOLLAR, DOLLAR>>)
    /\ \A j \in (p + 2)..(e - 2) : ~StartsAt(content, j, <<DOLLAR, DOLLAR>>)

\* C9 as stated: every math span of the body, inline or block, stands
\* character for character in the converted body, whatever it contains.
C9_AsStated ==
    pc = "done" =>
        \A p \in Positions, e \in Positions :
            (InlineSpan(p, e) \/ BlockSpan(p, e)) =>
                Count(out, SubSeq(content, p, e)) >= 1

\* C21 as stated: in convert_content the body of a fenced code block
\* reaches the output changed only by four spaces before each of its lines;
\* lines of the body that look like list items, ~~ pairs or img elements
\* are not rewritten.
C21_AsStated ==
    pc = "done" =>
        \A e \in Positions :
            (Block(1, OpenerEnd(1), e) /\ e + 2 = Len(content)) =>
                IsIndented(out, BodyOf(OpenerEnd(1), e))

-----------------------------------------------------------------------------
(* Claims about convert_frontmatter, checked under SpecFrontmatter         *)

\* the elements of a sequence value, joined with comma and space
RECURSIVE CommaJoined(_)
CommaJoined(elems) ==
    IF Len(elems) = 0 THEN <<>>
    ELSE IF Len(elems) = 1 THEN elems[1]
    ELSE elems[1] \o <<",", " ">> \o CommaJoined(Tail(elems))

\* the call has kept the fields: as many, with the same keys in place
SameFields ==
    /\ Len(frontmatter) = Len(header)
    /\ \A k \in 1..Len(header) : frontmatter[k].key = header[k].key

\* C10 as stated: every field whose value is a sequence, whatever its name,
\* is rewritten to the scalar that joins its elements with ', '; every other
\* field keeps its value and type; no field is added.
C10_AsStated ==
    pc = "done" =>
        /\ SameFields
        /\ \A k \in 1..Len(header) :
               IF header[k].value.t = "list"
               THEN frontmatter[k].value =
                        [t |-> "str", v |-> CommaJoined(header[k].value.v)]
               ELSE frontmatter[k].value = header[k].value

\* C10, amended: the field named 'tags', when its value is a sequence of
\* strings, is rewritten to the scalar that joins its elements with ', ';
\* every other field, sequence-valued ones included, keeps its value and
\* type; no field is added.
C10_Frontmatter ==
    pc = "done" =>
        /\ SameFields
        /\ \A k \in 1..Len(header) :
               IF header[k].key = <<"t", "a", "g", "s">> /\ header[k].value.t = "list"
               THEN frontmatter[k].value =
                        [t |-> "str", v |-> CommaJoined(header[k].value.v)]
               ELSE frontmatter[k].value = header[k].value

\* a header with a two-element tags list and another list-valued field has
\* been converted
C10_Witness ==
    /\ pc = "done"
    /\ \E k \in 1..Len(header), j \in 1..Len(header) :
           /\ header[k].key = <<"t", "a", "g", "s">>
           /\ header[k].value = [t |-> "list", v |-> <<<<"a">>, <<"b">>>>]
           /\ frontmatter[k].value = [t |-> "str", v |-> <<"a", ",", " ", "b">>]
           /\ j # k
           /\ header[j].value.t = "list"
           /\ frontmatter[j] = header[j]

\* the position in the returned text of the line that starts with 'key:',
\* 0 when there is none
FieldLine(key) == Find(<<NL>> \o out, 1, <<NL>> \o key \o <<":">>)

\* C11 as stated: the returned text lists the fields in the order the header
\* given to convert_frontmatter holds them, whatever their names are.
C11_AsStated ==
    pc = "done" =>
        \A j \in 1..Len(header), k \in 1..Len(header) :
            j < k =>
                /\ FieldLine(header[j].key) > 0
                /\ FieldLine(header[j].key) < FieldLine(header[k].key)

\* C14 as stated: after convert_frontmatter(m) has returned, the map of the
\* caller holds the fields and values it held before the call.
C14_AsStated == pc = "done" => frontmatter = header

-----------------------------------------------------------------------------
(* Claims about convert_file and get_warnings, checked under SpecFile      *)

\* lines 190-192
get_warnings == warnings

\* the body of the document of the most recent call holds a math span
LastBodyHasMath ==
    LET body == IF StartsAt(content, 1, <<"-", "-", "-", NL>>)
                   /\ Find(content, 5, <<"-", "-", "-", NL>>) > 0
                THEN From(content, Find(content, 5, <<"-", "-", "-", NL>>) + 4)
                ELSE content
    IN  \E p \in 1..Len(body), e \in 1..Len(body) :
            \/ /\ e > p + 1
               /\ body[p] = DOLLAR
               /\ body[e] = DOLLAR
               /\ \A j \in (p + 1)..(e - 1) : body[j] # DOLLAR
            \/ /\ e >= p + 2
               /\ StartsAt(body, p, <<DOLLAR, DOLLAR>>)
               /\ StartsAt(body, e, <<DOLLAR, DOLLAR>>)

\* C8 as stated: after any sequence of calls get_warnings() is one advisory
\* when the body of the most recent call holds a math span, and empty
\* otherwise, also when the most recent call ended in an error.
C8_AsStated ==
    (pc = "idle" /\ outcome # "none") =>
        get_warnings = IF LastBodyHasMath THEN <<ADVISORY>> ELSE <<>>

\* C8, amended: after any sequence of calls get_warnings() is one advisory
\* when the most recent call returned a conversion and its body holds a math
\* span, however many, and empty otherwise; an error of the most recent call
\* (a file that cannot be opened, a header that does not load as a map)
\* leaves the list empty whatever the body holds, and advisories of earlier
\* calls never remain.
C8_Warnings ==
    (pc = "idle" /\ outcome # "none") =>
        get_warnings = IF outcome = "ok" /\ LastBodyHasMath THEN <<ADVISORY>> ELSE <<>>

\* the most recent call converted a body with two math spans after a header
C8_Witness ==
    /\ pc = "idle"
    /\ outcome = "ok"
    /\ StartsAt(content, 1, <<"-", "-", "-", NL>>)
    /\ Len(header) > 0
    /\ Count(content, <<DOLLAR, DOLLAR>>) >= 2
    /\ LastBodyHasMath
    /\ get_warnings = <<ADVISORY>>

\* the call of convert_file has ended, with a result or an exception
CallEnded == pc = "idle" /\ outcome \in {"ok", "error"}

\* C12 as stated: for a header block with nothing between the two delimiter
\* lines convert_file does not raise and returns the two delimiter lines
\* followed by the converted body.
C12_AsStated ==
    (CallEnded /\ StartsAt(content, 1, <<"-", "-", "-", NL, "-", "-", "-", NL>>)) =>
        /\ outcome = "ok"
        /\ out = <<"-", "-", "-", NL, "-", "-", "-", NL>>
                 \o convert_content(From(content, 9))

\* the lines of the document; a text that ends with a line break has no
\* line after it
DocLines ==
    LET ls == Split(content, NL)
    IN  IF Len(content) > 0 /\ content[Len(content)] = NL
        THEN SubSeq(ls, 1, Len(ls) - 1) ELSE ls

DASHES == <<"-", "-", "-">>

\* the first line is exactly '---' and a later line is exactly '---'
HeaderByLines ==
    /\ Len(DocLines) >= 2
    /\ DocLines[1] = DASHES
    /\ \E k \in 2..Len(DocLines) : DocLines[k] = DASHES

\* the number of the second delimiter line
SecondDelimiter ==
    CHOOSE k \in 2..Len(DocLines) :
        DocLines[k] = DASHES /\ \A j \in 2..(k - 1) : DocLines[j] # DASHES

\* the text between the two delimiter lines, each line with its line break
HeaderTextByLines ==
    Flatten([k \in 1..(SecondDelimiter - 2) |-> DocLines[k + 1] \o <<NL>>])

\* everything after the second delimiter line
BodyByLines ==
    LET n == 4 + Len(HeaderTextByLines) + 4
    IN  IF n > Len(content) THEN <<>> ELSE From(content, n + 1)

\* C13 as stated: the input has a header exactly when its first line is
\* '---' and a later line is '---'; then the output is a header block
\* followed by the conversion of everything after that second line, and in
\* every other case the output is the conversion of the whole input.
C13_AsStated ==
    CallEnded =>
        IF HeaderByLines
        THEN outcome = "ok" =>
                 LET body == convert_content(BodyByLines)
                     n == Len(out) - Len(body)
                 IN  /\ n >= 8
                     /\ StartsAt(out, 1, <<"-", "-", "-", NL>>)
                     /\ SubSeq(out, n - 3, n) = <<"-", "-", "-", NL>>
                     /\ From(out, n + 1) = body
        ELSE outcome = "ok" /\ out = convert_content(content)

-----------------------------------------------------------------------------
(* Claims about main of the converter, checked under SpecMain              *)

\* the header text, by lines, is there and is not a map of fields
HeaderNotKeyValue ==
    /\ HeaderByLines
    /\ yaml_safe_load(HeaderTextByLines).t \in {"scalar", "error"}

\* the header text, by lines, is there and is empty
HeaderEmpty == HeaderByLines /\ yaml_safe_load(HeaderTextByLines).t = "none"

\* C15 as stated: the program ends with a non-zero status and nothing
\* written exactly when the input file is missing or the header text is not
\* key-value data; every other run ends with status 0 and the converted
\* text written.  (Nothing is required here of a run on an empty header.)
C15_AsStated ==
    (pc = "exited" /\ ~HeaderEmpty) =>
        IF outcome = "missing" \/ HeaderNotKeyValue
        THEN exit_status # 0 /\ written = NoOutput
        ELSE exit_status = 0 /\ written.dest # "none" /\ written.text = out

-----------------------------------------------------------------------------
(* Claims about the uploader, checked under SpecUpload                     *)

\* C16 as stated: when the uploader runs with --draft, the entry built for
\* the post holds the app:draft control element with value 'yes', whether
\* or not the front matter has a draft field.
C16_AsStated == (entry.built /\ args.draft) => entry.draft

-----------------------------------------------------------------------------
(* Claims about the converter followed by the uploader, checked under      *)
(* SpecPipeline                                                            *)

\* C22 as stated: for a document whose header has the tags t1, ..., tn and
\* no categories field, the entry built from the converted document has
\* exactly the category terms t1, ..., tn, in that order.
C22_AsStated ==
    ( /\ entry.built
      /\ HasKey(header, TAGS)
      /\ Lookup(header, TAGS).t = "list"
      /\ ~HasKey(header, CATEGORIES) ) =>
        entry.categories = Lookup(header, TAGS).v


(***************************************************************************)
(* The uploader object's tokens: authenticate, upload_entry, upload_image  *)
(* called in any order on one HatenaBlogOAuthUploader.  access_token is    *)
(* the pair self.access_token / self.access_token_secret, config_file the  *)
(* same two fields of the JSON file, requests the number of oauth.post     *)
(* calls the upload methods made.  Writing the config file is taken to     *)
(* succeed.                                                                *)
(***************************************************************************)

MaxRequests == 3

\* tokens a config file can hold when the object is constructed
ConfigTokens == {"", "t"}

ConfigSecrets == {"", "s"}

\* oauth_token / oauth_token_secret of the access token response ("" stands
\* for a missing or empty field)
OAuthTokens == {"", "u", "w"}

OAuthSecrets == {"", "v"}

\* status codes of a response other than 201
FailureStatuses == {400, 401, 500}

NETWORK_ERROR == -1

ImageFiles == {"missing", "not_image", "unreadable", "ok"}

\* lines 102, 318, 482: self.access_token and self.access_token_secret
Authenticated(tok) == tok.token # "" /\ tok.secret # ""

\* lines 90-99: the pair goes to the config file and to the object
save_access_token(token, secret) ==
    [memory |-> Tokens(token, secret), file |-> Tokens(token, secret)]

OnFailureStatus_NoReset(status, memory, file) == [memory |-> memory, file |-> file]

\* lines 360-369 and 622-631: the else branch of status_code == 201
OnFailureStatus(status, memory, file) ==
    IF status = 401
    THEN save_access_token("", "")
    ELSE [memory |-> memory, file |-> file]

\* lines 48-72: load_config reads both tokens from the file
InitSession ==
    /\ config_file \in {Tokens(t, s) : t \in ConfigTokens, s \in ConfigSecrets}
    /\ access_token = config_file
    /\ requests = 0
    /\ returned = NoCall
    /\ expressions = <<>>
    /\ image_mappings = <<>>
    /\ args = <<>>
    /\ exit_status = -1
    /\ written = NoOutput
    /\ entry = NoEntry
    /\ content = <<>>
    /\ warnings = <<>>
    /\ out = <<>>
    /\ header = <<>>
    /\ frontmatter = <<>>
    /\ outcome = "none"
    /\ lines = <<>>
    /\ i = 0
    /\ result = <<>>
    /\ in_ul = FALSE
    /\ in_ol = FALSE
    /\ indent_level = 0
    /\ pc = "session"

\* lines 101-172
Authenticate ==
    /\ pc = "session"
    /\ IF Authenticated(access_token)
       THEN /\ returned' = Call("authenticate", 0, "True")
            /\ UNCHANGED <<access_token, config_file>>
       ELSE \/ \* request token refused, no PIN typed, access token refused
               /\ returned' = Call("authenticate", 0, "False")
               /\ UNCHANGED <<access_token, config_file>>
            \/ \E t \in OAuthTokens, s \in OAuthSecrets :
                  IF t = "" \/ s = ""
                  THEN /\ returned' = Call("authenticate", 0, "False")
                       /\ UNCHANGED <<access_token, config_file>>
                  ELSE /\ access_token' = save_access_token(t, s).memory
                       /\ config_file' = save_access_token(t, s).file
                       /\ returned' = Call("authenticate", 0, "True")
    /\ UNCHANGED <<requests, expressions, image_mappings, cli, pc, content, out, lines, i,
                   result, in_ul, in_ol, indent_level, warnings, header,
                   frontmatter, outcome>>

\* lines 306-372
UploadEntry ==
    /\ pc = "session"
    /\ \E preview \in BOOLEAN :
          IF ~Authenticated(access_token)
          THEN /\ returned' = Call("upload_entry", 0, "False")
               /\ UNCHANGED <<access_token, config_file, requests>>
          ELSE IF preview
          THEN /\ returned' = Call("upload_entry", 0, "True")
               /\ UNCHANGED <<access_token, config_file, requests>>
          ELSE /\ requests < MaxRequests
               /\ requests' = requests + 1
               /\ \/ /\ returned' = Call("upload_entry", 201, "True")
                     /\ UNCHANGED <<access_token, config_file>>
                  \/ \E status \in FailureStatuses :
                        /\ access_token' =
                               OnFailureStatus(status, access_token, config_file).memory
                        /\ config_file' =
                               OnFailureStatus(status, access_token, config_file).file
                        /\ returned' = Call("upload_entry", status, "False")
                  \/ /\ returned' = Call("upload_entry", NETWORK_ERROR, "False")
                     /\ UNCHANGED <<access_token, config_file>>
    /\ UNCHANGED <<expressions, image_mappings, cli, pc, content, out, lines, i, result, in_ul,
                   in_ol, indent_level, warnings, header, frontmatter, outcome>>

\* lines 455-634
UploadImage ==
    /\ pc = "session"
    /\ \E file \in ImageFiles :
          IF file \in {"missing", "not_image"}
          THEN /\ returned' = Call("upload_image", 0, "None")
               /\ UNCHANGED <<access_token, config_file, requests>>
          ELSE IF ~Authenticated(access_token)
          THEN /\ returned' = Call("upload_image", 0, "None")
               /\ UNCHANGED <<access_token, config_file, requests>>
          ELSE IF file = "unreadable"
          THEN /\ returned' = Call("upload_image", 0, "None")
               /\ UNCHANGED <<access_token, config_file, requests>>
          ELSE /\ requests < MaxRequests
               /\ requests' = requests + 1
               /\ \/ \E value \in {"url", "None"} :
                        /\ returned' = Call("upload_image", 201, value)
                        /\ UNCHANGED <<access_token, config_file>>
                  \/ \E status \in FailureStatuses :
                        /\ access_token' =
                               OnFailureStatus(status, access_token, config_file).memory
                        /\ config_file' =
                               OnFailureStatus(status, access_token, config_file).file
                        /\ returned' = Call("upload_image", status, "None")
                  \/ /\ returned' = Call("upload_image", NETWORK_ERROR, "None")
                     /\ UNCHANGED <<access_token, config_file>>
    /\ UNCHANGED <<expressions, image_mappings, cli, pc, content, out, lines, i, result, in_ul,
                   in_ol, indent_level, warnings, header, frontmatter, outcome>>

NextSession == Authenticate \/ UploadEntry \/ UploadImage

SpecSession == InitSession /\ [][NextSession]_vars

Uploads == {"upload_entry", "upload_image"}

\* C23: a 401 received by upload_entry or upload_image empties the token and
\* its secret in the object and in the config file; while they are empty an
\* upload returns failure and sends nothing; they stop being empty only when
\* authenticate stores a pair with both parts non-empty; a failure with another
\* status and a network error leave the object's and the file's tokens as
\* they were
C23_TokenReset ==
    [][ /\ (returned'.call \in Uploads /\ returned'.status = 401) =>
               (access_token' = NoTokens /\ config_file' = NoTokens)
        /\ (access_token = NoTokens /\ returned'.call \in Uploads) =>
               /\ requests' = requests
               /\ returned'.status = 0
               /\ returned'.value \in {"False", "None"}
        /\ (access_token = NoTokens /\ access_token' # NoTokens) =>
               /\ returned'.call = "authenticate"
               /\ returned'.value = "True"
               /\ Authenticated(access_token')
               /\ config_file' = access_token'
        /\ (config_file = NoTokens /\ config_file' # NoTokens) =>
               returned'.call = "authenticate"
        /\ (returned'.call \in Uploads /\ returned'.status \notin {0, 201, 401}) =>
               UNCHANGED <<access_token, config_file>>
      ]_vars

\* an upload refused for want of tokens, on an object that has sent requests
C23_Witness ==
    /\ pc = "session"
    /\ access_token = NoTokens
    /\ config_file = NoTokens
    /\ requests > 0
    /\ returned.call \in Uploads
    /\ returned.status = 0
    /\ returned.value \in {"False", "None"}


(***************************************************************************)
(* The LaTeX tool (src/markdown_latex_to_image.py): the expressions are    *)
(* extracted from the document, rendered one by one, and the document is   *)
(* rewritten with an image link in place of each rendered expression.      *)
(* Positions are 0-based with an exclusive end, as match.start() and       *)
(* match.end() are.                                                        *)
(***************************************************************************)

MaxLatexLen == 8

LatexAlphabet == {DOLLAR, "a", NL}

LatexInputs == Texts(LatexAlphabet, MaxLatexLen)

\* the character at the 1-based position p, the empty string outside the text
CharAt(s, p) == IF p >= 1 /\ p <= Len(s) THEN s[p] ELSE ""

\* \$\$ at the 1-based position p
HasDollars(s, p) == CharAt(s, p) = DOLLAR /\ CharAt(s, p + 1) = DOLLAR

\* \s{0,} taken greedily from p: the first position that is not whitespace
RECURSIVE SkipSpace(_, _)
SkipSpace(s, p) ==
    IF p <= Len(s) /\ s[p] \in Whitespace THEN SkipSpace(s, p + 1) ELSE p

\* the first \$\$ at or after p, 0 when there is none
RECURSIVE NextDollars(_, _)
NextDollars(s, p) ==
    IF p > Len(s) THEN 0
    ELSE IF HasDollars(s, p) THEN p
    ELSE NextDollars(s, p + 1)

Expression(expression, is_block, start_pos, end_pos, full_match) ==
    [expression |-> expression, is_block |-> is_block, start_pos |-> start_pos,
     end_pos |-> end_pos, full_match |-> full_match]

\* line 27: the block pattern with DOTALL, matched from each position in
\* turn by finditer; the group is the text between the two whitespace runs
RECURSIVE BlockMatches(_, _)
BlockMatches(s, p) ==
    IF p > Len(s) THEN <<>>
    ELSE LET from == SkipSpace(s, p + 2)
             d == IF HasDollars(s, p) THEN NextDollars(s, from) ELSE 0
         IN  IF d = 0
             THEN BlockMatches(s, p + 1)
             ELSE <<Expression(Strip(RStrip(SubSeq(s, from, d - 1))), TRUE,
                               p - 1, d + 1, SubSeq(s, p, d + 1))>>
                  \o BlockMatches(s, d + 2)

\* (?<!\$)\$(?!\$): a dollar with no dollar next to it
LoneDollar(s, p) ==
    /\ CharAt(s, p) = DOLLAR
    /\ CharAt(s, p - 1) # DOLLAR
    /\ CharAt(s, p + 1) # DOLLAR

\* the lazy group of the inline pattern: the first lone dollar at or after p
\* that no line break precedes, 0 when there is none
RECURSIVE InlineClose(_, _)
InlineClose(s, p) ==
    IF p > Len(s) THEN 0
    ELSE IF LoneDollar(s, p) THEN p
    ELSE IF s[p] = NL THEN 0
    ELSE InlineClose(s, p + 1)

\* line 40: the inline pattern, matched from each position in turn
RECURSIVE InlineMatches(_, _)
InlineMatches(s, p) ==
    IF p > Len(s) THEN <<>>
    ELSE LET c == IF LoneDollar(s, p) THEN InlineClose(s, p + 1) ELSE 0
         IN  IF c = 0
             THEN InlineMatches(s, p + 1)
             ELSE <<Expression(Strip(SubSeq(s, p + 1, c - 1)), FALSE,
                               p - 1, c, SubSeq(s, p, c))>>
                  \o InlineMatches(s, c + 1)

\* lines 43-47: the overlap test of an inline match against the list so far
Overlaps(found, match) ==
    \E k \in 1..Len(found) :
        \/ found[k].start_pos <= match.start_pos /\ match.start_pos < found[k].end_pos
        \/ found[k].start_pos < match.end_pos /\ match.end_pos <= found[k].end_pos

\* lines 41-56: the loop over the inline matches
RECURSIVE AppendInline(_, _)
AppendInline(found, matches) ==
    IF matches = <<>> THEN found
    ELSE AppendInline(IF Overlaps(found, Head(matches))
                      THEN found
                      ELSE Append(found, Head(matches)),
                      Tail(matches))

\* one element put into a list sorted by start_pos, after the elements with
\* the same start_pos (list.sort and sorted are stable)
RECURSIVE InsertByStart(_, _)
InsertByStart(sorted, x) ==
    IF sorted = <<>> THEN <<x>>
    ELSE IF x.start_pos < Head(sorted).start_pos THEN <<x>> \o sorted
    ELSE <<Head(sorted)>> \o InsertByStart(Tail(sorted), x)

\* line 58: expressions.sort(key=lambda x: x[2])
RECURSIVE SortByStart(_)
SortByStart(list) ==
    IF list = <<>> THEN <<>>
    ELSE InsertByStart(SortByStart(SubSeq(list, 1, Len(list) - 1)), list[Len(list)])

\* lines 19-60
extract_latex_expressions(markdown_content, convert_inline) ==
    LET blocks == BlockMatches(markdown_content, 1)
    IN  SortByStart(IF convert_inline
                    THEN AppendInline(blocks, InlineMatches(markdown_content, 1))
                    ELSE blocks)

RECURSIVE Reversed(_)
Reversed(list) ==
    IF list = <<>> THEN <<>> ELSE Reversed(Tail(list)) \o <<Head(list)>>

\* s[:n] and s[n:] of Python, for n >= 0
SliceTo(s, n) == SubSeq(s, 1, IF n < Len(s) THEN n ELSE Len(s))

SliceFrom(s, n) == IF n >= Len(s) THEN <<>> ELSE SubSeq(s, n + 1, Len(s))

\* the decimal digits of a natural number
RECURSIVE Decimal(_)
Decimal(n) ==
    LET digit == <<"0", "1", "2", "3", "4", "5", "6", "7", "8", "9">>[(n % 10) + 1]
    IN  IF n < 10 THEN <<digit>> ELSE Decimal(n \div 10) \o <<digit>>

\* lines 219-220, with the default format: image-latex{i}.png
FileName(n) ==
    <<"i", "m", "a", "g", "e", "-", "l", "a", "t", "e", "x">> \o Decimal(n)
        \o <<".", "p", "n", "g">>

\* line 76
AltText(expr) ==
    IF Len(expr) > 50 THEN SubSeq(expr, 1, 50) \o <<".", ".", ".">> ELSE expr

\* line 77
ImageLink(expr, filename) ==
    <<"!", "[">> \o AltText(expr) \o <<"]", "(", ".", "/">> \o filename \o <<")">>

\* line 73: the first mapping with this expression text, 0 when there is none
MappingOf(mappings, expr) ==
    IF \E k \in 1..Len(mappings) : mappings[k].expression = expr
    THEN CHOOSE k \in 1..Len(mappings) :
             /\ mappings[k].expression = expr
             /\ \A j \in 1..(k - 1) : mappings[j].expression # expr
    ELSE 0

\* lines 71-85: the loop, over the expressions from the last start to the first
RECURSIVE ReplaceEach(_, _, _)
ReplaceEach(modified_content, sorted_expressions, mappings) ==
    IF sorted_expressions = <<>> THEN modified_content
    ELSE LET x == Head(sorted_expressions)
             k == MappingOf(mappings, x.expression)
         IN  ReplaceEach(
                 IF k = 0
                 THEN modified_content
                 ELSE SliceTo(modified_content, x.start_pos)
                          \o ImageLink(x.expression, mappings[k].filename)
                          \o SliceFrom(modified_content, x.end_pos),
                 Tail(sorted_expressions), mappings)

\* lines 63-87
create_modified_markdown(markdown_content, exprs, mappings) ==
    ReplaceEach(markdown_content, Reversed(SortByStart(exprs)), mappings)

\* lines 214-235: one mapping for each expression that was rendered
RECURSIVE MappingsFrom(_, _, _)
MappingsFrom(exprs, rendered, n) ==
    IF n > Len(exprs) THEN <<>>
    ELSE (IF n \in rendered
          THEN <<[expression |-> exprs[n].expression, filename |-> FileName(n),
                  is_block |-> exprs[n].is_block]>>
          ELSE <<>>)
         \o MappingsFrom(exprs, rendered, n + 1)

InitLatex ==
    /\ content \in LatexInputs
    /\ args \in [convert_inline : BOOLEAN]
    /\ exit_status = -1
    /\ written = NoOutput
    /\ entry = NoEntry
    /\ InitTools
    /\ warnings = <<>>
    /\ out = <<>>
    /\ header = <<>>
    /\ frontmatter = <<>>
    /\ outcome = "none"
    /\ lines = <<>>
    /\ i = 0
    /\ result = <<>>
    /\ in_ul = FALSE
    /\ in_ol = FALSE
    /\ indent_level = 0
    /\ pc = "latex"

\* main, lines 199-208
LatexExtract ==
    /\ pc = "latex"
    /\ expressions' = extract_latex_expressions(content, args.convert_inline)
    /\ pc' = IF expressions' = <<>> THEN "latex_exited" ELSE "render"
    /\ exit_status' = IF expressions' = <<>> THEN 0 ELSE exit_status
    /\ UNCHANGED <<access_token, config_file, requests, returned, image_mappings,
                   content, out, lines, i, result, in_ul, in_ol, indent_level,
                   warnings, header, frontmatter, outcome, args, written, entry>>

\* main, lines 211-237: each expression is rendered or fails to render
LatexRender ==
    /\ pc = "render"
    /\ \E rendered \in SUBSET (1..Len(expressions)) :
          /\ image_mappings' = MappingsFrom(expressions, rendered, 1)
          /\ pc' = IF rendered = {} THEN "latex_exited" ELSE "modify"
          /\ exit_status' = IF rendered = {} THEN 0 ELSE exit_status
    /\ UNCHANGED <<access_token, config_file, requests, returned, expressions,
                   content, out, lines, i, result, in_ul, in_ol, indent_level,
                   warnings, header, frontmatter, outcome, args, written, entry>>

\* main, lines 239-247: the rewritten document is built and saved
LatexModify ==
    /\ pc = "modify"
    /\ out' = create_modified_markdown(content, expressions, image_mappings)
    /\ written' = [dest |-> "file", text |-> out']
    /\ exit_status' = 0
    /\ pc' = "modified"
    /\ UNCHANGED <<tools, content, lines, i, result, in_ul, in_ol, indent_level,
                   warnings, header, frontmatter, outcome, args, entry>>

NextLatex == LatexExtract \/ LatexRender \/ LatexModify

SpecLatex == InitLatex /\ [][NextLatex]_vars


\* no span of the list reaches into another one
NonOverlapping(exprs) ==
    \A j, k \in 1..Len(exprs) :
        j # k => \/ exprs[j].end_pos <= exprs[k].start_pos
                 \/ exprs[k].end_pos <= exprs[j].start_pos

\* the document with the link of each rendered expression in place of its
\* span and every other character where it was, built from the first span to
\* the last one
RECURSIVE SplicedFrom(_, _, _, _)
SplicedFrom(s, exprs, mappings, at) ==
    IF exprs = <<>> THEN SliceFrom(s, at)
    ELSE LET x == Head(exprs)
             k == MappingOf(mappings, x.expression)
         IN  SubSeq(s, at + 1, x.start_pos)
                 \o (IF k = 0
                     THEN x.full_match
                     ELSE ImageLink(x.expression, mappings[k].filename))
                 \o SplicedFrom(s, Tail(exprs), mappings, x.end_pos)

\* C24 as stated: with convert_inline the extracted spans are pairwise
\* non-overlapping, and the rewritten document differs from the original
\* only inside the spans
C24_AsStated ==
    (pc \in {"render", "modify", "modified"} /\ args.convert_inline) =>
        /\ NonOverlapping(expressions)
        /\ pc = "modified" =>
               out = SplicedFrom(content, expressions, image_mappings, 0)

====
